---- MODULE Spec2Model ----
(***************************************************************************)
(* Wormhole: the shared activity timeline of AI coding agents.             *)
(* The model covers the event store and its query engine (db.ts), the      *)
(* tool handlers (handlers.ts) and the staleness validator (utils.ts).     *)
(* Text is modelled as a sequence of one-character strings, so that trim,  *)
(* startsWith, includes, split and join are computed as the code does.     *)
(***************************************************************************)
EXTENDS Integers, Sequences, FiniteSets, TLC

VARIABLES
    timeline,        \* rows of table timeline, in rowid order
    nextId,          \* AUTOINCREMENT sequence of table timeline
    now,             \* Date.now(), in milliseconds
    sessions,        \* rows of table sessions
    nextSession,     \* number of session ids drawn so far (crypto.randomUUID)
    activeSessions,  \* the in-memory map project_path -> session id
    knowledge,       \* rows of table knowledge_objects, in rowid order
    nextKnowledgeId, \* AUTOINCREMENT sequence of table knowledge_objects
    files,           \* the file system: absolute path -> content
    call,            \* arguments of the pending call (pure-function specifications)
    result,          \* what the last operation returned
    chain            \* a reader following the cursor chain of one project

vars == <<timeline, nextId, now, sessions, nextSession, activeSessions, knowledge,
         nextKnowledgeId, files, call, result, chain>>

----------------------------------------------------------------------------
(* Text *)

\* null / undefined. Every text is a tuple of one-character strings, so this
\* tuple is different from every text.
Null == <<"null">>

\* The content of a file that exists and cannot be read (readFileSync throws);
\* different from every text, as Null is.
Unreadable == <<"unreadable">>

NL == "\n"

\* The whitespace String.prototype.trim removes (within the model's alphabet).
WhiteSpace == {" ", "\t"}

RECURSIVE TrimStart(_)
TrimStart(s) ==
    IF Len(s) > 0 /\ Head(s) \in WhiteSpace THEN TrimStart(Tail(s)) ELSE s

RECURSIVE TrimEnd(_)
TrimEnd(s) ==
    IF Len(s) > 0 /\ s[Len(s)] \in WhiteSpace
    THEN TrimEnd(SubSeq(s, 1, Len(s) - 1))
    ELSE s

Trim(s) == TrimEnd(TrimStart(s))

StartsWith(s, p) == Len(p) <= Len(s) /\ SubSeq(s, 1, Len(p)) = p

\* String.prototype.includes: sub occurs in s as a substring.
Includes(s, sub) ==
    \E i \in 1..(Len(s) - Len(sub) + 1) : SubSeq(s, i, i + Len(sub) - 1) = sub

\* String.prototype.split on a one-character separator.
RECURSIVE Split(_, _)
Split(s, c) ==
    IF \E i \in 1..Len(s) : s[i] = c
    THEN LET i == CHOOSE k \in 1..Len(s) : s[k] = c /\ \A j \in 1..(k - 1) : s[j] # c
         IN  <<SubSeq(s, 1, i - 1)>> \o Split(SubSeq(s, i + 1, Len(s)), c)
    ELSE <<s>>

\* Array.prototype.join with a one-character separator.
RECURSIVE Join(_, _)
Join(ls, c) ==
    IF Len(ls) = 0 THEN <<>>
    ELSE IF Len(ls) = 1 THEN ls[1]
    ELSE ls[1] \o <<c>> \o Join(Tail(ls), c)

\* The set of the elements of a sequence.
Range(s) == {s[i] : i \in 1..Len(s)}

\* All sequences over S of length lo..hi.
SeqsOf(S, lo, hi) == UNION {[1..n -> S] : n \in lo..hi}

----------------------------------------------------------------------------
(* Numbers as text *)

DigitChars == <<"0", "1", "2", "3", "4", "5", "6", "7", "8", "9">>

IsDigit(c) == \E d \in 1..Len(DigitChars) : DigitChars[d] = c
DigitValue(c) == (CHOOSE d \in 1..Len(DigitChars) : DigitChars[d] = c) - 1

\* String(n) for an integer n.
RECURSIVE NatToString(_)
NatToString(n) ==
    IF n < Len(DigitChars) THEN <<DigitChars[n + 1]>>
    ELSE NatToString(n \div Len(DigitChars)) \o <<DigitChars[(n % Len(DigitChars)) + 1]>>

IntToString(n) == IF n < 0 THEN <<"-">> \o NatToString(0 - n) ELSE NatToString(n)

\* The value of the longest prefix of s made of digits, read after acc.
RECURSIVE DigitsValue(_, _)
DigitsValue(s, acc) ==
    IF Len(s) > 0 /\ IsDigit(Head(s))
    THEN DigitsValue(Tail(s), acc * Len(DigitChars) + DigitValue(Head(s)))
    ELSE acc

\* parseInt(s, 10): leading whitespace, an optional sign, then digits; NaN
\* (nan = TRUE) when no digit follows.
ParseInt(s) ==
    LET t == TrimStart(s)
        signed == Len(t) > 0 /\ Head(t) \in {"+", "-"}
        body == IF signed THEN Tail(t) ELSE t
    IN  IF Len(body) > 0 /\ IsDigit(Head(body))
        THEN [nan |-> FALSE,
              value |-> IF signed /\ Head(t) = "-"
                        THEN 0 - DigitsValue(body, 0) ELSE DigitsValue(body, 0)]
        ELSE [nan |-> TRUE, value |-> 0]

\* String.prototype.replace(pat, ""): the first occurrence of pat removed.
RemoveFirst(s, pat) ==
    IF Includes(s, pat)
    THEN LET i == CHOOSE k \in 1..(Len(s) - Len(pat) + 1) :
                      /\ SubSeq(s, k, k + Len(pat) - 1) = pat
                      /\ \A j \in 1..(k - 1) : SubSeq(s, j, j + Len(pat) - 1) # pat
         IN  SubSeq(s, 1, i - 1) \o SubSeq(s, i + Len(pat), Len(s))
    ELSE s

\* SQLite's LIKE: % stands for any text, _ for any one character (the
\* alphabet of the model has one letter case).
RECURSIVE Like(_, _)
Like(s, pat) ==
    IF Len(pat) = 0 THEN Len(s) = 0
    ELSE IF Head(pat) = "%"
         THEN \E k \in 0..Len(s) : Like(SubSeq(s, k + 1, Len(s)), Tail(pat))
         ELSE /\ Len(s) > 0
              /\ (Head(pat) = "_" \/ Head(pat) = Head(s))
              /\ Like(Tail(s), Tail(pat))

\* JSON.stringify of an array of strings (the alphabet has no character
\* that JSON escapes).
JsonStringArray(strings) ==
    <<"[">>
    \o Join([i \in 1..Len(strings) |-> <<"\"">> \o strings[i] \o <<"\"">>], ",")
    \o <<"]">>

----------------------------------------------------------------------------
(* Staleness validator *)

\* Math.ceil(n * PATCH_VALIDATION_THRESHOLD) with PATCH_VALIDATION_THRESHOLD = 0.6.
\* In IEEE doubles ceil(n * 0.6) = ceil(3n / 5) for every n up to 2000.
PatchThresholdNum == 3
PatchThresholdDen == 5
Threshold(n) == (n * PatchThresholdNum + PatchThresholdDen - 1) \div PatchThresholdDen

IsAddedLine(line) ==
    StartsWith(line, <<"+">>) /\ ~StartsWith(line, <<"+", "+", "+">>)

IsRemovedLine(line) ==
    StartsWith(line, <<"-">>) /\ ~StartsWith(line, <<"-", "-", "-">>)

IsContextLine(line) == StartsWith(line, <<" ">>)

\* extractPatch keeping the file-header lines (+++ and ---) as well.
extractPatchKeepingHeaders(diff) ==
    IF diff = Null \/ diff = <<>> THEN Null
    ELSE LET lines == Split(diff, NL)
             patchLines == SelectSeq(lines,
                 LAMBDA l : \/ StartsWith(l, <<"+">>) \/ StartsWith(l, <<"-">>)
                            \/ StartsWith(l, <<" ">>))
         IN  IF Len(patchLines) > 0 THEN Join(patchLines, NL) ELSE Null

extractPatch(diff) ==
    IF diff = Null \/ diff = <<>> THEN Null
    ELSE LET lines == Split(diff, NL)
             patchLines == SelectSeq(lines,
                 LAMBDA l : IsAddedLine(l) \/ IsRemovedLine(l) \/ IsContextLine(l))
         IN  IF Len(patchLines) > 0 THEN Join(patchLines, NL) ELSE Null

\* path.isAbsolute (posix)
IsAbsolute(p) == StartsWith(p, <<"/">>)

\* path.join(projectPath, filePath); the paths of the model hold no ".", ".."
\* or doubled separators, so normalisation leaves the concatenation as it is.
PathJoin(a, b) == a \o <<"/">> \o b

AbsolutePath(filePath, projectPath) ==
    IF IsAbsolute(filePath) THEN filePath ELSE PathJoin(projectPath, filePath)

\* fs.existsSync
FileExists(p) == p \in DOMAIN files /\ files[p] # Null

\* patchContent: the trimmed text of the added lines, in order.
PatchContent(patchLines) ==
    LET added == SelectSeq(patchLines, IsAddedLine)
    IN  [i \in 1..Len(added) |-> Trim(Tail(added[i]))]

\* A removed line whose trimmed text is not empty and still occurs in the file.
RemovedStillPresentExact(patchLines, currentContent) ==
    \E i \in 1..Len(patchLines) :
        /\ IsRemovedLine(patchLines[i])
        /\ LET removed == Trim(Tail(patchLines[i]))
           IN  Len(removed) > 0
               /\ \E l \in Range(Split(currentContent, NL)) : Trim(l) = removed

RemovedStillPresent(patchLines, currentContent) ==
    \E i \in 1..Len(patchLines) :
        /\ IsRemovedLine(patchLines[i])
        /\ LET removed == Trim(Tail(patchLines[i]))
           IN  Len(removed) > 0 /\ Includes(currentContent, removed)

\* One added line counts as found in the file.
AddedLineMatches(patchLine, normalizedLines) ==
    /\ Len(patchLine) # 0
    /\ \/ patchLine \in normalizedLines
       \/ \E normalized \in normalizedLines :
              Includes(normalized, patchLine) \/ Includes(patchLine, normalized)

MatchCount(patchContent, normalizedLines) ==
    Cardinality({i \in 1..Len(patchContent) :
                    AddedLineMatches(patchContent[i], normalizedLines)})

\* validatePatch taking a file that is missing or unreadable for a match.
validatePatchFailOpen(filePath, patch, projectPath) ==
    IF patch = Null \/ patch = <<>> THEN TRUE
    ELSE LET absolutePath == AbsolutePath(filePath, projectPath)
         IN  IF ~FileExists(absolutePath) THEN TRUE
             ELSE IF files[absolutePath] = Unreadable THEN TRUE
             ELSE LET currentContent == files[absolutePath]
                      currentLines == Split(currentContent, NL)
                      patchLines == Split(patch, NL)
                      patchContent == PatchContent(patchLines)
                      normalizedLines == {Trim(l) : l \in Range(currentLines)}
                  IN  IF RemovedStillPresent(patchLines, currentContent) THEN FALSE
                      ELSE IF Len(patchContent) = 0 THEN TRUE
                      ELSE MatchCount(patchContent, normalizedLines)
                               >= Threshold(Len(patchContent))

validatePatch(filePath, patch, projectPath) ==
    IF patch = Null \/ patch = <<>> THEN TRUE
    ELSE LET absolutePath == AbsolutePath(filePath, projectPath)
         IN  IF ~FileExists(absolutePath) THEN FALSE
             ELSE IF files[absolutePath] = Unreadable THEN FALSE
             ELSE LET currentContent == files[absolutePath]
                      currentLines == Split(currentContent, NL)
                      patchLines == Split(patch, NL)
                      patchContent == PatchContent(patchLines)
                      normalizedLines == {Trim(l) : l \in Range(currentLines)}
                  IN  IF RemovedStillPresent(patchLines, currentContent) THEN FALSE
                      ELSE IF Len(patchContent) = 0 THEN TRUE
                      ELSE MatchCount(patchContent, normalizedLines)
                               >= Threshold(Len(patchContent))

----------------------------------------------------------------------------
(* Inputs of the staleness validator *)

MaxPatchLines == 3
MaxFileLines == 2

ProjectP == <<"/", "p">>
ProjectQ == <<"/", "q">>
Projects == {ProjectP, ProjectQ}

FileF == <<"f">>
AbsPaths == {PathJoin(p, FileF) : p \in Projects}

\* Lines a diff is made of: added, removed, blank added, blank removed, header.
DiffLines ==
    { <<"+", " ", "a">>, <<"+", "a", "b">>, <<"+", "b">>, <<"+">>,
      <<"-", " ", "a">>, <<"-">>, <<"+", "+", "+">> }

\* Lines a file is made of.
FileLines == { <<"a">>, <<"a", "b">>, <<"c">>, <<>> }

PatchInputs ==
    {Null} \cup {Join(ls, NL) : ls \in SeqsOf(DiffLines, 1, MaxPatchLines)}

\* A file that does not exist, or a file of 0..MaxFileLines lines; a last
\* line that is empty is a file ending in a newline.
FileInputs ==
    {Null} \cup {Join(ls, NL) : ls \in SeqsOf(FileLines, 0, MaxFileLines)}

NoFiles == [p \in AbsPaths |-> Null]

----------------------------------------------------------------------------
(* The staleness validator as a pure function: validatePatch applied to    *)
(* every patch and every file content of the bounded input sets.           *)

NoCall == [op |-> "none"]
NoResult == [op |-> "none"]
NoChain == [cursor |-> Null, seen |-> {}, twice |-> FALSE]

InitPatch ==
    /\ timeline = <<>>
    /\ nextId = 1
    /\ now = 0
    /\ sessions = {}
    /\ nextSession = 1
    /\ activeSessions = [p \in Projects |-> Null]
    /\ knowledge = <<>>
    /\ nextKnowledgeId = 1
    /\ \E content \in FileInputs :
           files = [NoFiles EXCEPT ![PathJoin(ProjectP, FileF)] = content]
    /\ \E patch \in PatchInputs, fp \in {FileF, PathJoin(ProjectP, FileF)} :
           call = [op |-> "validatePatch", filePath |-> fp, patch |-> patch,
                   projectPath |-> ProjectP]
    /\ result = NoResult
    /\ chain = NoChain

ValidatePatchCall ==
    /\ call.op = "validatePatch"
    /\ result = NoResult
    /\ result' = [op |-> "validatePatch",
                  value |-> validatePatch(call.filePath, call.patch, call.projectPath)]
    /\ UNCHANGED <<timeline, nextId, now, sessions, nextSession, activeSessions, knowledge, nextKnowledgeId, files, call,
                   chain>>

NextPatch == ValidatePatchCall

SpecPatch == InitPatch /\ [][NextPatch]_vars

----------------------------------------------------------------------------
(* Claims about validatePatch, checked under SpecPatch *)

Validated == result.op = "validatePatch"

\* The content validatePatch read: Null when the file does not exist.
CallContent == files[AbsolutePath(call.filePath, call.projectPath)]

CallPatchLines == IF call.patch = Null THEN <<>> ELSE Split(call.patch, NL)

\* Trimmed texts of the added and of the removed lines of the call's patch.
CallAdded == PatchContent(CallPatchLines)
CallRemoved ==
    LET removedLines == SelectSeq(CallPatchLines, IsRemovedLine)
    IN  [i \in 1..Len(removedLines) |-> Trim(Tail(removedLines[i]))]

\* text occurs in the file, as a whole line or as part of a line.
OccursInFile(text) == CallContent # Null /\ Includes(CallContent, text)

\* The trimmed lines of the file (none when the file does not exist).
CallFileLines ==
    IF CallContent = Null THEN {} ELSE {Trim(l) : l \in Range(Split(CallContent, NL))}

\* The match rule as the documentation states it: equal to a file line,
\* contained in a file line, or containing a file line.
DocumentedMatch(text) ==
    \E l \in CallFileLines : text = l \/ Includes(l, text) \/ Includes(text, l)

\* C6 (as claimed): a patch that only adds lines, none of which occurs in the
\* file as a whole line or as part of a line, fails validatePatch, whatever
\* the content of the file.
C6_AbsentAddedLinesFail ==
    ( /\ Validated
      /\ Len(CallPatchLines) > 0
      /\ \A i \in 1..Len(CallPatchLines) : IsAddedLine(CallPatchLines[i])
      /\ \A i \in 1..Len(CallAdded) : ~OccursInFile(CallAdded[i]) )
    => result.value = FALSE

\* C7 (as claimed): validatePatch returns false whenever the trimmed text of a
\* removed line of the patch still occurs anywhere in the file.
C7_RemovedPresentFails_Original ==
    ( /\ Validated
      /\ \E i \in 1..Len(CallRemoved) : OccursInFile(CallRemoved[i]) )
    => result.value = FALSE

\* C7 (amended): validatePatch returns false whenever the patch has a removed
\* line whose trimmed text is not empty and still occurs anywhere in the file,
\* however many added lines of the patch match.
C7_RemovedPresentFails ==
    ( /\ Validated
      /\ \E i \in 1..Len(CallRemoved) :
             Len(CallRemoved[i]) > 0 /\ OccursInFile(CallRemoved[i]) )
    => result.value = FALSE

\* C7 witness: a patch with a removed line still in the file and with added
\* lines that all match has been rejected.
C7_Witness ==
    /\ Validated
    /\ \E i \in 1..Len(CallRemoved) :
           Len(CallRemoved[i]) > 0 /\ OccursInFile(CallRemoved[i])
    /\ Len(CallAdded) >= 2
    /\ \A i \in 1..Len(CallAdded) : CallAdded[i] \in CallFileLines
    /\ result.value = FALSE

\* C8 (as claimed): with at least one added line and no removed line still in
\* the file, validatePatch is true exactly when the added lines that match
\* (equal to, contained in or containing a file line) number at least
\* ceil(0.6 x the number of added lines).
C8_ThresholdIff ==
    ( /\ Validated
      /\ Len(CallAdded) > 0
      /\ \A i \in 1..Len(CallRemoved) : ~OccursInFile(CallRemoved[i]) )
    => ( result.value
         <=> Cardinality({i \in 1..Len(CallAdded) : DocumentedMatch(CallAdded[i])}) * 10
                 >= 6 * Len(CallAdded) )

----------------------------------------------------------------------------
(* Event store (db.ts) *)

MaxEvents == 3
MaxSessions == 2
MaxNow == 1

MsPerHour == 3600000

\* DEFAULT_CONFIG
DefaultLimit == 5
DefaultMaxPayloadChars == 200

\* An absent list argument (null); an empty list is <<>>.
NullList == <<Null>>

EvtPrefix == <<"e", "v", "t", "_">>

\* `evt_${id}`
FormatCursor(id) == EvtPrefix \o IntToString(id)

\* The id a since_cursor stands for; nan when there is none to apply.
CursorId(since_cursor) ==
    IF since_cursor = Null \/ since_cursor = <<>>
    THEN [nan |-> TRUE, value |-> 0]
    ELSE ParseInt(RemoveFirst(since_cursor, EvtPrefix))

\* A payload is kept in parsed form: Malformed stands for a text JSON.parse
\* rejects, and a parsed payload has the fields the operations read.
Malformed == [valid |-> FALSE]
Payload(file_path, diff) == [valid |-> TRUE, file_path |-> file_path, diff |-> diff]
PlainPayload == Payload(Null, Null)

Rows == Range(timeline)

\* The row addEvent inserts. AUTOINCREMENT: the id is one more than the largest
\* id the table ever held, not than the largest it holds now.
NewRowReusingIds(agent_id, action, payload, project_path, isolated, session_id, tags) ==
    [id |-> IF Rows = {} THEN 1
            ELSE 1 + (CHOOSE n \in {r.id : r \in Rows} : \A r \in Rows : r.id <= n),
     agent_id |-> agent_id,
     action |-> action,
     payload |-> payload,
     timestamp |-> now,
     project_path |-> project_path,
     isolated |-> isolated,
     session_id |-> session_id,
     tags |-> IF Len(tags) > 0 THEN JsonStringArray(tags) ELSE Null,
     rejected |-> FALSE]

NewRow(agent_id, action, payload, project_path, isolated, session_id, tags) ==
    [id |-> nextId,
     agent_id |-> agent_id,
     action |-> action,
     payload |-> payload,
     timestamp |-> now,
     project_path |-> project_path,
     isolated |-> isolated,
     session_id |-> session_id,
     tags |-> IF Len(tags) > 0 THEN JsonStringArray(tags) ELSE Null,
     rejected |-> FALSE]

\* addEvent: the effect on the store.
Insert(agent_id, action, payload, project_path, isolated, session_id, tags) ==
    /\ nextId <= MaxEvents
    /\ timeline' = Append(timeline,
           NewRow(agent_id, action, payload, project_path, isolated, session_id, tags))
    /\ nextId' = nextId + 1

\* (',' || tags || ',') LIKE '%,' || ? || ',%'  -- NULL when tags is NULL
TagCondition(row, tag) ==
    /\ row.tags # Null
    /\ Like(<<",">> \o row.tags \o <<",">>, <<"%", ",">> \o tag \o <<",", "%">>)

\* The WHERE clause of getRecentEvents before the isolation floor.
WhereAnyProject(row, project_path, since_cursor, action_types, tags) ==
    /\ (~CursorId(since_cursor).nan => row.id > CursorId(since_cursor).value)
    /\ (action_types # Null /\ Len(action_types) > 0
            => row.action \in Range(action_types))
    /\ (tags # NullList /\ Len(tags) > 0
            => \E i \in 1..Len(tags) : TagCondition(row, tags[i]))

Where(row, project_path, since_cursor, action_types, tags) ==
    /\ row.project_path = project_path
    /\ (~CursorId(since_cursor).nan => row.id > CursorId(since_cursor).value)
    /\ (action_types # Null /\ Len(action_types) > 0
            => row.action \in Range(action_types))
    /\ (tags # NullList /\ Len(tags) > 0
            => \E i \in 1..Len(tags) : TagCondition(row, tags[i]))

\* The isolation markers of a project.
IsolationRows(project_path) ==
    {r \in Rows : r.project_path = project_path /\ r.isolated}

\* ORDER BY timestamp ASC LIMIT 1 over the isolation markers: the oldest one.
IsolationChoicesOldest(project_path) ==
    {r.id : r \in {x \in IsolationRows(project_path) :
                      \A y \in IsolationRows(project_path) : y.timestamp >= x.timestamp}}

\* ORDER BY timestamp DESC LIMIT 1 over the isolation markers: SQL leaves the
\* choice among markers of equal timestamp open.
IsolationChoices(project_path) ==
    {r.id : r \in {x \in IsolationRows(project_path) :
                      \A y \in IsolationRows(project_path) : y.timestamp <= x.timestamp}}

\* AND id >= ?
ApplyFloorStrict(rows, floor) == {r \in rows : r.id > floor}

ApplyFloor(rows, floor) == {r \in rows : r.id >= floor}

\* ORDER BY timestamp DESC: every order of the rows in which timestamps never
\* increase (rows of equal timestamp come in an order SQL leaves open).
RECURSIVE OrderByTimestampDesc(_)
OrderByTimestampDesc(rows) ==
    IF rows = {} THEN {<<>>}
    ELSE UNION {{<<r>> \o s : s \in OrderByTimestampDesc(rows \ {r})} :
                   r \in {x \in rows : \A y \in rows : x.timestamp >= y.timestamp}}

\* LIMIT ?  (a negative limit is no limit in SQLite)
Take(s, limit) ==
    IF limit < 0 \/ limit >= Len(s) THEN s ELSE SubSeq(s, 1, limit)

Reverse(s) == [i \in 1..Len(s) |-> s[Len(s) + 1 - i]]

QueryResult(events) ==
    [events |-> events,
     cursor |-> IF Len(events) > 0 THEN FormatCursor(events[Len(events)].id) ELSE Null]

\* getRecentEvents: the set of results the query can produce in this state.
getRecentEvents(project_path, limit, since_cursor, action_types, tags) ==
    LET base == {r \in Rows : Where(r, project_path, since_cursor, action_types, tags)}
        candidates ==
            IF IsolationRows(project_path) = {} THEN {base}
            ELSE {ApplyFloor(base, f) : f \in IsolationChoices(project_path)}
        orders == UNION {OrderByTimestampDesc(c) : c \in candidates}
    IN  {QueryResult(Reverse(Take(rows, limit))) : rows \in orders}

----------------------------------------------------------------------------
(* Sessions (db.ts) *)

SessionId(k) == <<"s">> \o IntToString(k)

\* A session row keeps ended_at as <<>> (NULL) or <<time>>.
\* getSession: the row, or Null
HasSession(session_id) == \E x \in sessions : x.id = session_id
getSession(session_id) == CHOOSE x \in sessions : x.id = session_id

\* getActiveSession(project_path)?.id ?? null
ActiveSessionIdUnchecked(project_path) == activeSessions[project_path]

ActiveSessionId(project_path) ==
    IF activeSessions[project_path] # Null /\ HasSession(activeSessions[project_path])
    THEN activeSessions[project_path]
    ELSE Null

----------------------------------------------------------------------------
(* Operations *)

Agents == {<<"a", "1">>, <<"a", "2">>}
Agent1 == <<"a", "1">>

\* The clock advances between operations; two operations may fall in the
\* same millisecond.
Tick ==
    /\ now < MaxNow
    /\ now' = now + 1
    /\ UNCHANGED <<timeline, nextId, sessions, nextSession, activeSessions, knowledge, nextKnowledgeId, files, call,
                   result, chain>>

\* String.prototype.slice(0, end): a negative end counts from the end of s.
SliceTo(s, end) ==
    IF end < 0 THEN SubSeq(s, 1, IF Len(s) + end < 0 THEN 0 ELSE Len(s) + end)
    ELSE SubSeq(s, 1, IF end > Len(s) THEN Len(s) ELSE end)

\* truncatePayload
truncatePayload(payload, maxChars) ==
    IF payload = Null \/ Len(payload) <= maxChars THEN payload
    ELSE SliceTo(payload, maxChars - 3) \o <<".", ".", ".">>

\* handleLog attaching the event to the active session only for the agent
\* that started it (a pointer kept per agent).
HandleLogOwnSession(agent_id, action, file_path, diff, project_path, isolate, tags, max_payload_chars) ==
    /\ Insert(agent_id, action,
              Payload(truncatePayload(file_path, max_payload_chars), diff),
              project_path, isolate,
              IF /\ ActiveSessionId(project_path) # Null
                 /\ getSession(ActiveSessionId(project_path)).started_by = agent_id
              THEN ActiveSessionId(project_path) ELSE Null,
              tags)
    /\ result' = [op |-> "log", id |-> timeline'[Len(timeline')].id]
    /\ UNCHANGED <<now, sessions, nextSession, activeSessions, knowledge, nextKnowledgeId, files, call, chain>>

\* handleLog: the event is attached to the project's active session.
HandleLog(agent_id, action, file_path, diff, project_path, isolate, tags, max_payload_chars) ==
    /\ Insert(agent_id, action,
              Payload(truncatePayload(file_path, max_payload_chars), diff),
              project_path, isolate, ActiveSessionId(project_path), tags)
    /\ result' = [op |-> "log", id |-> timeline'[Len(timeline')].id]
    /\ UNCHANGED <<now, sessions, nextSession, activeSessions, knowledge, nextKnowledgeId, files, call, chain>>

\* handleStartSession: createSession, setActiveSession, and the isolation
\* marker unless isolate is false.
HandleStartSession(project_path, agent_id, isolate) ==
    /\ nextSession <= MaxSessions
    /\ sessions' = sessions \cup
           {[id |-> SessionId(nextSession), project_path |-> project_path,
             started_at |-> now, ended_at |-> <<>>, started_by |-> agent_id,
             summary |-> Null, active |-> TRUE]}
    /\ nextSession' = nextSession + 1
    /\ activeSessions' = [activeSessions EXCEPT ![project_path] = SessionId(nextSession)]
    /\ IF isolate
       THEN Insert(agent_id, "session_start", PlainPayload, project_path, TRUE,
                   SessionId(nextSession), <<>>)
       ELSE UNCHANGED <<timeline, nextId>>
    /\ result' = [op |-> "start_session", id |-> SessionId(nextSession),
                  project_path |-> project_path, isolate |-> isolate]
    /\ UNCHANGED <<now, knowledge, nextKnowledgeId, files, call, chain>>

\* cleanupByScope: scope all, project or session; returns the events deleted.
InScope(row, scope, project_path, session_id) ==
    CASE scope = "all" -> TRUE
      [] scope = "project" -> row.project_path = project_path
      [] scope = "session" -> row.session_id = session_id

\* The argument the scope needs is missing (undefined or the empty string).
ScopeArgumentMissing(scope, project_path, session_id) ==
    \/ scope = "project" /\ (project_path = Null \/ project_path = <<>>)
    \/ scope = "session" /\ (session_id = Null \/ session_id = <<>>)

ProjectPathRequired == <<"project_path required for project scope">>
SessionIdRequiredForScope == <<"session_id required for session scope">>

\* cleanupByScope forgetting the pointers to the sessions it deletes.
CleanupByScopeClearingPointers(scope, project_path, session_id) ==
    /\ ~ScopeArgumentMissing(scope, project_path, session_id)
    /\ timeline' = SelectSeq(timeline,
           LAMBDA r : ~InScope(r, scope, project_path, session_id))
    /\ sessions' = {x \in sessions :
           ~(CASE scope = "all" -> TRUE
               [] scope = "project" -> x.project_path = project_path
               [] scope = "session" -> x.id = session_id)}
    /\ activeSessions' = [p \in Projects |->
           IF \E x \in sessions' : x.id = activeSessions[p] THEN activeSessions[p] ELSE Null]
    /\ result' = [op |-> "cleanup", thrown |-> FALSE,
                  deleted |-> Cardinality({r \in Rows :
                                  InScope(r, scope, project_path, session_id)})]
    /\ UNCHANGED <<nextId, now, nextSession, knowledge, nextKnowledgeId, files, call, chain>>

\* cleanupByScope (archive off): throws before any statement when the
\* argument of the scope is missing.
CleanupByScope(scope, project_path, session_id) ==
    IF ScopeArgumentMissing(scope, project_path, session_id)
    THEN /\ result' = [op |-> "cleanup", thrown |-> TRUE,
                       reply |-> IF scope = "project" THEN ProjectPathRequired
                                 ELSE SessionIdRequiredForScope]
         /\ UNCHANGED <<timeline, sessions, nextId, now, nextSession, activeSessions, knowledge,
                        nextKnowledgeId, files, call, chain>>
    ELSE /\ timeline' = SelectSeq(timeline,
                LAMBDA r : ~InScope(r, scope, project_path, session_id))
         /\ sessions' = {x \in sessions :
                ~(CASE scope = "all" -> TRUE
                    [] scope = "project" -> x.project_path = project_path
                    [] scope = "session" -> x.id = session_id)}
         /\ result' = [op |-> "cleanup", thrown |-> FALSE,
                       deleted |-> Cardinality({r \in Rows :
                                       InScope(r, scope, project_path, session_id)})]
         /\ UNCHANGED <<nextId, now, nextSession, activeSessions, knowledge, nextKnowledgeId,
                        files, call, chain>>

\* cleanupOldEvents deleting every session started before the cutoff, ended
\* or not.
CleanupOldEventsAnySession(retention_hours) ==
    LET cutoff == now - retention_hours * MsPerHour
    IN  /\ timeline' = SelectSeq(timeline, LAMBDA r : ~(r.timestamp < cutoff))
        /\ sessions' = {x \in sessions : ~(x.started_at < cutoff)}
        /\ result' = [op |-> "cleanup", thrown |-> FALSE,
                      deleted |-> Cardinality({r \in Rows : r.timestamp < cutoff})]
        /\ UNCHANGED <<nextId, now, nextSession, activeSessions, knowledge, nextKnowledgeId, files, call, chain>>

\* cleanupOldEvents (archive_before_delete off): events older than the
\* retention cutoff, and the ended sessions older than it, are deleted.
CleanupOldEvents(retention_hours) ==
    LET cutoff == now - retention_hours * MsPerHour
    IN  /\ timeline' = SelectSeq(timeline, LAMBDA r : ~(r.timestamp < cutoff))
        /\ sessions' = {x \in sessions : ~(Len(x.ended_at) > 0 /\ x.ended_at[1] < cutoff)}
        /\ result' = [op |-> "cleanup", thrown |-> FALSE,
                      deleted |-> Cardinality({r \in Rows : r.timestamp < cutoff})]
        /\ UNCHANGED <<nextId, now, nextSession, activeSessions, knowledge, nextKnowledgeId, files, call, chain>>

\* getRecentEvents, called once.
GetRecentEvents(project_path, limit, since_cursor, action_types, tags) ==
    /\ \E q \in getRecentEvents(project_path, limit, since_cursor, action_types, tags) :
           result' = [op |-> "getRecentEvents", project_path |-> project_path,
                      limit |-> limit, since_cursor |-> since_cursor,
                      action_types |-> action_types, tags |-> tags,
                      events |-> q.events, cursor |-> q.cursor]
    /\ UNCHANGED <<timeline, nextId, now, sessions, nextSession, activeSessions, knowledge, nextKnowledgeId, files,
                   call, chain>>

EventIds(events) == {events[i].id : i \in 1..Len(events)}

\* A reader of one project that follows the cursor chain: each delta query
\* passes the cursor the previous one returned (a reply without events
\* carries no cursor, and the reader keeps the one it has).
ChainQuery(project_path, limit) ==
    /\ \E q \in getRecentEvents(project_path, limit, chain.cursor, Null, NullList) :
           /\ result' = [op |-> "getRecentEvents", project_path |-> project_path,
                         limit |-> limit, since_cursor |-> chain.cursor,
                         action_types |-> Null, tags |-> NullList,
                         events |-> q.events, cursor |-> q.cursor]
           /\ chain' = [cursor |-> IF q.cursor = Null THEN chain.cursor ELSE q.cursor,
                        seen |-> chain.seen \cup EventIds(q.events),
                        twice |-> chain.twice \/ EventIds(q.events) \cap chain.seen # {}]
    /\ UNCHANGED <<timeline, nextId, now, sessions, nextSession, activeSessions, knowledge, nextKnowledgeId, files,
                   call>>

----------------------------------------------------------------------------
(* The timeline: agents log to two projects, start sessions, clean up, and *)
(* readers query with and without cursors.                                 *)

Limits == {2, DefaultLimit}

\* No cursor, or the cursor of an event appended so far.
Cursors == {Null} \cup {FormatCursor(i) : i \in 1..(nextId - 1)}

Init ==
    /\ timeline = <<>>
    /\ nextId = 1
    /\ now = 0
    /\ sessions = {}
    /\ nextSession = 1
    /\ activeSessions = [p \in Projects |-> Null]
    /\ knowledge = <<>>
    /\ nextKnowledgeId = 1
    /\ files = NoFiles
    /\ call = NoCall
    /\ result = NoResult
    /\ chain = NoChain

Log ==
    \E p \in Projects, isolate \in BOOLEAN :
        HandleLog(Agent1, "decision", Null, Null, p, isolate, <<>>, DefaultMaxPayloadChars)

StartSession == \E p \in Projects : HandleStartSession(p, Agent1, TRUE)

Cleanup == \E p \in Projects : CleanupByScope("project", p, Null)

\* Retention cleanup with retention_hours = 0: whatever is older than the
\* current millisecond goes.
Retention == CleanupOldEvents(0)

Query ==
    \E limit \in Limits, c \in Cursors :
        GetRecentEvents(ProjectP, limit, c, Null, NullList)

Follow == \E limit \in Limits : ChainQuery(ProjectP, limit)

Next == Tick \/ Log \/ Cleanup \/ Retention \/ Query

Spec == Init /\ [][Next]_vars

\* The cursor chain: agents log to the two projects while a reader of
\* project P follows its cursor chain.
NextChain == Tick \/ Log \/ Follow

SpecChain == Init /\ [][NextChain]_vars

----------------------------------------------------------------------------
(* Conflict detector (db.ts, handlers.ts) and the stale filter (utils.ts) *)

MsPerMinute == 60000
DefaultTimeWindow == 60

\* The keys of the Map getConflicts builds: the file paths of the rows whose
\* payload parses, has a file_path and passes the files filter.
ConflictPath(row, filesArg) ==
    IF ~row.payload.valid THEN Null
    ELSE IF row.payload.file_path = Null \/ row.payload.file_path = <<>> THEN Null
    ELSE IF filesArg # NullList
            /\ ~\E i \in 1..Len(filesArg) : Includes(row.payload.file_path, filesArg[i])
         THEN Null
    ELSE row.payload.file_path

\* More than one agent_id among the events.
MultipleAgents(events) == Cardinality({events[i].agent_id : i \in 1..Len(events)}) > 1

\* getConflicts applying the isolation floor of getRecentEvents to its rows.
getConflictsAboveFloor(project_path, time_window_mins, filesArg) ==
    LET cutoff == now - time_window_mins * MsPerMinute
        inWindow == {r \in Rows : /\ r.project_path = project_path
                                  /\ r.timestamp > cutoff
                                  /\ r.action = "file_edit"}
        candidates ==
            IF IsolationRows(project_path) = {} THEN {inWindow}
            ELSE {ApplyFloor(inWindow, f) : f \in IsolationChoices(project_path)}
        Groups(rows) ==
            LET keys == {ConflictPath(rows[i], filesArg) : i \in 1..Len(rows)} \ {Null}
                fileEdits == [k \in keys |->
                                 SelectSeq(rows, LAMBDA r : ConflictPath(r, filesArg) = k)]
                conflicting == {k \in keys : MultipleAgents(fileEdits[k])}
            IN  [k \in conflicting |-> fileEdits[k]]
    IN  {Groups(rows) : rows \in UNION {OrderByTimestampDesc(c) : c \in candidates}}

\* getConflicts: the set of Maps (file path -> events) the query can produce.
getConflicts(project_path, time_window_mins, filesArg) ==
    LET cutoff == now - time_window_mins * MsPerMinute
        selected == {r \in Rows : /\ r.project_path = project_path
                                  /\ r.timestamp > cutoff
                                  /\ r.action = "file_edit"}
        Groups(rows) ==
            LET keys == {ConflictPath(rows[i], filesArg) : i \in 1..Len(rows)} \ {Null}
                fileEdits == [k \in keys |->
                                 SelectSeq(rows, LAMBDA r : ConflictPath(r, filesArg) = k)]
                conflicting == {k \in keys : MultipleAgents(fileEdits[k])}
            IN  [k \in conflicting |-> fileEdits[k]]
    IN  {Groups(rows) : rows \in OrderByTimestampDesc(selected)}

\* The predicate of filterStaleFileEdits without its test of the rejected flag.
KeepEventIgnoringRejected(event, projectPath) ==
    IF event.action # "file_edit" THEN TRUE
    ELSE IF ~event.payload.valid THEN TRUE
    ELSE IF event.payload.file_path = Null \/ event.payload.file_path = <<>> THEN TRUE
    ELSE IF event.payload.diff = Null \/ event.payload.diff = <<>> THEN TRUE
    ELSE validatePatch(event.payload.file_path, extractPatch(event.payload.diff),
                       projectPath)

\* The predicate of filterStaleFileEdits: the event is kept.
KeepEvent(event, projectPath) ==
    IF event.action # "file_edit" THEN TRUE
    ELSE IF event.rejected THEN FALSE
    ELSE IF ~event.payload.valid THEN TRUE
    ELSE IF event.payload.file_path = Null \/ event.payload.file_path = <<>> THEN TRUE
    ELSE IF event.payload.diff = Null \/ event.payload.diff = <<>> THEN TRUE
    ELSE validatePatch(event.payload.file_path, extractPatch(event.payload.diff),
                       projectPath)

\* filterStaleFileEdits validating every file_edit event that is not rejected:
\* an event without a readable payload, a file_path or a diff is dropped.
filterStaleFileEditsFailClosed(events, projectPath) ==
    SelectSeq(events, LAMBDA e :
        IF e.action # "file_edit" THEN TRUE
        ELSE IF e.rejected THEN FALSE
        ELSE /\ e.payload.valid
             /\ e.payload.file_path # Null
             /\ e.payload.diff # Null
             /\ validatePatch(e.payload.file_path, extractPatch(e.payload.diff),
                              projectPath))

filterStaleFileEdits(events, projectPath) ==
    SelectSeq(events, LAMBDA e : KeepEvent(e, projectPath))

\* More than one event is left.
EnoughValid(validEvents) == Len(validEvents) > 1

\* handleCheckConflicts: the Map of reported files (empty: "no conflicts").
ValidConflicts(conflicts, project_path) ==
    LET valid == [k \in DOMAIN conflicts |->
                     filterStaleFileEdits(conflicts[k], project_path)]
    IN  [k \in {x \in DOMAIN conflicts : EnoughValid(valid[x])} |-> valid[k]]

\* extractFilePaths / isEventRelevant
extractFilePaths(event) ==
    IF ~event.payload.valid THEN {}
    ELSE IF event.payload.file_path = Null \/ event.payload.file_path = <<>> THEN {}
    ELSE {event.payload.file_path}

isEventRelevant(event, relatedTo) ==
    \/ Len(relatedTo) = 0
    \/ \E path \in extractFilePaths(event) : \E i \in 1..Len(relatedTo) :
           Includes(path, relatedTo[i]) \/ Includes(relatedTo[i], path)

\* getConflicts, called once.
GetConflicts(project_path, time_window_mins, filesArg) ==
    /\ \E conflicts \in getConflicts(project_path, time_window_mins, filesArg) :
           result' = [op |-> "getConflicts", project_path |-> project_path,
                      time_window |-> time_window_mins, conflicts |-> conflicts]
    /\ UNCHANGED <<timeline, nextId, now, sessions, nextSession, activeSessions, knowledge,
                   nextKnowledgeId, files, call, chain>>

\* handleCheckConflicts; an optional number is <<>> when absent, <<n>> when given.
HandleCheckConflicts(project_path, time_window, filesArg) ==
    /\ \E conflicts \in getConflicts(project_path,
                           IF Len(time_window) = 0 THEN DefaultTimeWindow ELSE time_window[1],
                           filesArg) :
           result' = [op |-> "check_conflicts", project_path |-> project_path,
                      time_window |-> time_window, files |-> filesArg,
                      conflicts |-> ValidConflicts(conflicts, project_path)]
    /\ UNCHANGED <<timeline, nextId, now, sessions, nextSession, activeSessions, knowledge,
                   nextKnowledgeId, files, call, chain>>

\* handleGetRecent: the store query, the related_to filter, the stale filter;
\* formatEvents prints the store query's cursor unless no event is left.
HandleGetRecent(project_path, limit, since_cursor, related_to, action_types, tags) ==
    /\ \E q \in getRecentEvents(project_path,
                   IF Len(limit) = 0 THEN DefaultLimit ELSE limit[1],
                   since_cursor, action_types, tags) :
           LET relevant == IF related_to # NullList /\ Len(related_to) > 0
                           THEN SelectSeq(q.events,
                                          LAMBDA e : isEventRelevant(e, related_to))
                           ELSE q.events
               events == filterStaleFileEdits(relevant, project_path)
           IN  result' = [op |-> "get_recent", project_path |-> project_path,
                          since_cursor |-> since_cursor,
                          events |-> events,
                          cursor |-> IF Len(events) = 0 THEN Null ELSE q.cursor]
    /\ UNCHANGED <<timeline, nextId, now, sessions, nextSession, activeSessions, knowledge,
                   nextKnowledgeId, files, call, chain>>

\* addEvent, called directly on the store.
AddEvent(agent_id, action, payload, project_path, isolated, session_id, tags) ==
    /\ Insert(agent_id, action, payload, project_path, isolated, session_id, tags)
    /\ result' = [op |-> "addEvent", id |-> timeline'[Len(timeline')].id]
    /\ UNCHANGED <<now, sessions, nextSession, activeSessions, knowledge, nextKnowledgeId,
                   files, call, chain>>

\* The file system changes under the timeline: a file is written or deleted.
WriteFile(path, content) ==
    /\ files[path] # content
    /\ files' = [files EXCEPT ![path] = content]
    /\ result' = NoResult
    /\ UNCHANGED <<timeline, nextId, now, sessions, nextSession, activeSessions, knowledge,
                   nextKnowledgeId, call, chain>>

----------------------------------------------------------------------------
(* Knowledge store and search ranker (db.ts) *)

MaxKnowledge == 2

\* Scores are kept in tenths: confidence 1.0 is 10, the boosts 2.0, 1.5 and
\* 0.5 are 20, 15 and 5.
FirstTypeBoost == 20
TypeBoostStep == 5
TitleBoost == 5
DefaultMaxResults == 10

\* INTENT_TYPE_PRIORITY
IntentTypePriority(intent) ==
    CASE intent = "debugging" -> <<"pitfall", "constraint">>
      [] intent = "feature" -> <<"decision", "convention">>
      [] intent = "refactor" -> <<"convention", "constraint">>
      [] intent = "test" -> <<"pitfall">>
      [] OTHER -> <<>>

\* String.prototype.toLowerCase on the alphabet of the model.
LowerChar(c) ==
    CASE c = "A" -> "a"
      [] c = "B" -> "b"
      [] OTHER -> c
ToLower(s) == [i \in 1..Len(s) |-> LowerChar(s[i])]

\* split(/\s+/).filter(t => t.length > 0)
RECURSIVE Words(_)
Words(s) ==
    LET t == TrimStart(s)
    IN  IF Len(t) = 0 THEN <<>>
        ELSE LET n == IF \E i \in 1..Len(t) : t[i] \in WhiteSpace
                      THEN (CHOOSE i \in 1..Len(t) :
                               t[i] \in WhiteSpace /\ \A j \in 1..(i - 1) : t[j] \notin WhiteSpace) - 1
                      ELSE Len(t)
             IN  <<SubSeq(t, 1, n)>> \o Words(SubSeq(t, n + 1, Len(t)))

HasQuery(query) == query # Null /\ Len(Trim(query)) > 0

\* The filter on title and content asking for every term of the query.
MatchesQueryAllTerms(obj, query) ==
    LET queryTerms == Words(Trim(ToLower(query)))
    IN  \A i \in 1..Len(queryTerms) :
            \/ Includes(ToLower(obj.title), queryTerms[i])
            \/ Includes(ToLower(obj.content), queryTerms[i])

\* The filter on title and content: any term of the query occurs in either.
MatchesQuery(obj, query) ==
    LET queryTerms == Words(Trim(ToLower(query)))
    IN  \E i \in 1..Len(queryTerms) :
            \/ Includes(ToLower(obj.title), queryTerms[i])
            \/ Includes(ToLower(obj.content), queryTerms[i])

\* preferredTypes.indexOf(type): 0-based, -1 when absent
IndexOf(seq, x) ==
    IF \E i \in 1..Len(seq) : seq[i] = x
    THEN (CHOOSE i \in 1..Len(seq) : seq[i] = x /\ \A j \in 1..(i - 1) : seq[j] # x) - 1
    ELSE 0 - 1

ScoreIgnoringIntent(obj, intent, query) ==
    obj.confidence
    + (IF HasQuery(query) /\ Includes(ToLower(obj.title), Trim(ToLower(query)))
       THEN TitleBoost ELSE 0)

Score(obj, intent, query) ==
    LET typeIndex == IndexOf(IntentTypePriority(intent), obj.knowledge_type)
    IN  obj.confidence
        + (IF typeIndex # 0 - 1 THEN FirstTypeBoost - typeIndex * TypeBoostStep ELSE 0)
        + (IF HasQuery(query) /\ Includes(ToLower(obj.title), Trim(ToLower(query)))
           THEN TitleBoost ELSE 0)

\* WHERE project_path = ?
OfProject(obj, project_path) == obj.project_path = project_path

\* The comparator of scored.sort: score descending, lower id first on a tie.
ScoredBeforeHigherIdFirst(a, b, intent, query) ==
    \/ Score(a, intent, query) > Score(b, intent, query)
    \/ Score(a, intent, query) = Score(b, intent, query) /\ a.id > b.id

ScoredBefore(a, b, intent, query) ==
    \/ Score(a, intent, query) > Score(b, intent, query)
    \/ Score(a, intent, query) = Score(b, intent, query) /\ a.id < b.id

\* scored.sort: the comparator is a total order on rows of distinct id, so
\* the sorted list does not depend on the order the SELECT delivers.
RECURSIVE SortScored(_, _, _)
SortScored(found, intent, query) ==
    IF found = {} THEN <<>>
    ELSE LET first == CHOOSE a \in found :
                          \A b \in found \ {a} : ScoredBefore(a, b, intent, query)
         IN  <<first>> \o SortScored(found \ {first}, intent, query)

\* searchProjectKnowledge without the slice: the whole ranking is returned.
searchProjectKnowledgeUnlimited(project_path, intent, query, maxResults) ==
    LET found == {o \in Range(knowledge) :
                     /\ OfProject(o, project_path)
                     /\ (HasQuery(query) => MatchesQuery(o, query))}
        scored == SortScored(found, intent, query)
    IN  [i \in 1..Cardinality(found) |->
            [type |-> scored[i].knowledge_type, summary |-> scored[i].title,
             confidence |-> scored[i].confidence]]

searchProjectKnowledge(project_path, intent, query, maxResults) ==
    LET found == {o \in Range(knowledge) :
                     /\ OfProject(o, project_path)
                     /\ (HasQuery(query) => MatchesQuery(o, query))}
        scored == SortScored(found, intent, query)
        \* slice(0, maxResults)
        end == IF maxResults < 0
               THEN (IF Cardinality(found) + maxResults < 0
                     THEN 0 ELSE Cardinality(found) + maxResults)
               ELSE (IF maxResults < Cardinality(found)
                     THEN maxResults ELSE Cardinality(found))
    IN  [i \in 1..end |->
            [type |-> scored[i].knowledge_type, summary |-> scored[i].title,
             confidence |-> scored[i].confidence]]

\* createKnowledgeObject
CreateKnowledgeObject(project_path, knowledge_type, title, content, source_event_id, confidence) ==
    /\ nextKnowledgeId <= MaxKnowledge
    /\ knowledge' = Append(knowledge,
           [id |-> nextKnowledgeId, project_path |-> project_path,
            knowledge_type |-> knowledge_type, title |-> title, content |-> content,
            source_event_id |-> source_event_id, confidence |-> confidence,
            created_at |-> now])
    /\ nextKnowledgeId' = nextKnowledgeId + 1
    /\ result' = [op |-> "createKnowledgeObject", id |-> nextKnowledgeId]
    /\ UNCHANGED <<timeline, nextId, now, sessions, nextSession, activeSessions, files,
                   call, chain>>

\* searchProjectKnowledge, called once.
SearchProjectKnowledge(project_path, intent, query, maxResults) ==
    /\ result' = [op |-> "searchProjectKnowledge", project_path |-> project_path,
                  intent |-> intent, query |-> query, maxResults |-> maxResults,
                  results |-> searchProjectKnowledge(project_path, intent, query,
                                                     maxResults)]
    /\ UNCHANGED <<timeline, nextId, now, sessions, nextSession, activeSessions, knowledge,
                   nextKnowledgeId, files, call, chain>>

----------------------------------------------------------------------------
(* Claims about getRecentEvents *)

Queried == result.op = "getRecentEvents"

MaxOf(S) == CHOOSE x \in S : \A y \in S : y <= x

\* C1 (as claimed): once an isolation marker with id N is in project P, every
\* query against P returns only events with id >= N.
C1_IsolationFloor ==
    Queried =>
        \A m \in IsolationRows(result.project_path) :
            \A i \in 1..Len(result.events) : result.events[i].id >= m.id

\* C2 (as claimed): a query with since_cursor = evt_N returns no event with
\* id <= N, and a reader that passes each returned cursor to its next query
\* is never handed the same event twice.
C2_NoRedelivery ==
    /\ (Queried /\ ~CursorId(result.since_cursor).nan) =>
           \A i \in 1..Len(result.events) :
               result.events[i].id > CursorId(result.since_cursor).value
    /\ ~chain.twice

\* C3: a delta query with cursor evt_N, no action_types or tags filter and a
\* limit at least the number of events of the project newer than N returns
\* every stored event e2 of the project with id > N that no isolation marker
\* of the project is newer than.
C3_DeltaReturnsNewer ==
    ( /\ Queried
      /\ result.action_types = Null
      /\ result.tags = NullList
      /\ ~CursorId(result.since_cursor).nan )
    => LET N == CursorId(result.since_cursor).value
           newer == {r \in Rows : r.project_path = result.project_path /\ r.id > N}
       IN  result.limit >= Cardinality(newer)
           => \A e2 \in newer :
                  (\A m \in IsolationRows(result.project_path) : m.id <= e2.id)
                  => e2 \in Range(result.events)

\* C3 witness: a delta query after the first event of P, whose limit is
\* exactly the number of newer events, has returned them, an isolation
\* marker among them.
C3_Witness ==
    /\ Queried
    /\ result.since_cursor = FormatCursor(1)
    /\ \E r \in Rows : r.id = 1 /\ r.project_path = result.project_path
    /\ result.limit = 2
    /\ Len(result.events) = 2
    /\ \E i \in 1..Len(result.events) : result.events[i].isolated

\* C10 (as claimed): the cursor is evt_<id> of the last event of the returned
\* list, which is the event appended last among those returned, and it is
\* null exactly when the list is empty.
C10_CursorIsNewest ==
    Queried =>
        /\ (result.cursor = Null <=> Len(result.events) = 0)
        /\ Len(result.events) > 0 =>
               /\ result.cursor = FormatCursor(result.events[Len(result.events)].id)
               /\ result.events[Len(result.events)].id = MaxOf(EventIds(result.events))

----------------------------------------------------------------------------
(* Project scoping: two agents edit the same file in two projects and save *)
(* knowledge to both, while readers query either project.                  *)

TitleA == <<"a">>
TitleB == <<"A", " ", "b">>

\* Both agents edit the file in P; the first agent also edits it in Q.
Edit ==
    \E p \in Projects, a \in Agents :
        /\ (p = ProjectQ => a = Agent1)
        /\ AddEvent(a, "file_edit", Payload(FileF, Null), p, FALSE, Null, <<>>)

\* Each project saves knowledge under a title of its own.
Learn ==
    \E p \in Projects :
        CreateKnowledgeObject(p, "pitfall", IF p = ProjectP THEN TitleA ELSE TitleB,
                              <<"c">>, Null, 10)

ReadRecent ==
    \E p \in Projects : GetRecentEvents(p, DefaultLimit, Null, Null, NullList)

ReadConflicts == \E p \in Projects : GetConflicts(p, DefaultTimeWindow, NullList)

Search ==
    \E p \in Projects : SearchProjectKnowledge(p, "debugging", Null, DefaultMaxResults)

NextScope == Edit \/ Learn \/ ReadRecent \/ ReadConflicts \/ Search

SpecScope == Init /\ [][NextScope]_vars

\* Everything the three queries can answer for a project in this state.
AnswersFor(p) ==
    <<getRecentEvents(p, DefaultLimit, Null, Null, NullList),
      getConflicts(p, DefaultTimeWindow, NullList),
      searchProjectKnowledge(p, "debugging", Null, DefaultMaxResults)>>

\* The step appends one event or one knowledge object, to a project other than p.
AppendsElsewhere(p) ==
    \/ /\ Len(timeline') = Len(timeline) + 1
       /\ SubSeq(timeline', 1, Len(timeline)) = timeline
       /\ timeline'[Len(timeline')].project_path # p
       /\ knowledge' = knowledge
    \/ /\ Len(knowledge') = Len(knowledge) + 1
       /\ SubSeq(knowledge', 1, Len(knowledge)) = knowledge
       /\ knowledge'[Len(knowledge')].project_path # p
       /\ timeline' = timeline

C4_OwnProjectOnly ==
    /\ Queried =>
           \A i \in 1..Len(result.events) :
               result.events[i].project_path = result.project_path
    /\ result.op = "getConflicts" =>
           \A k \in DOMAIN result.conflicts : \A i \in 1..Len(result.conflicts[k]) :
               result.conflicts[k][i].project_path = result.project_path
    /\ result.op = "searchProjectKnowledge" =>
           \A i \in 1..Len(result.results) :
               \E o \in Range(knowledge) :
                   /\ o.project_path = result.project_path
                   /\ o.knowledge_type = result.results[i].type
                   /\ o.title = result.results[i].summary
                   /\ o.confidence = result.results[i].confidence

\* C4: getRecentEvents(P) and getConflicts(P) return only events of P, every
\* result of searchProjectKnowledge(P) is a knowledge object of P, and
\* appending an event or a knowledge object to another project changes none
\* of the answers for P.
C4_ProjectScoped ==
    /\ []C4_OwnProjectOnly
    /\ [][\A p \in Projects : AppendsElsewhere(p) => AnswersFor(p)' = AnswersFor(p)]_vars

\* C4 witness: a query against P has returned events while events and
\* knowledge of Q are stored, and P has a conflict group.
C4_Witness ==
    /\ Queried
    /\ result.project_path = ProjectP
    /\ Len(result.events) > 1
    /\ \E r \in Rows : r.project_path = ProjectQ
    /\ \E o \in Range(knowledge) : o.project_path = ProjectQ
    /\ \E c \in getConflicts(ProjectP, DefaultTimeWindow, NullList) : DOMAIN c # {}

----------------------------------------------------------------------------
(* Conflicts: two agents log edits of one file of project P, with and      *)
(* without a diff, the file changes, and check_conflicts is called.        *)

DiffAddA == <<"+", "a">>

EditFile ==
    \E a \in Agents, diff \in {Null, DiffAddA} :
        HandleLog(a, "file_edit", FileF, diff, ProjectP, FALSE, <<>>,
                  DefaultMaxPayloadChars)

Write ==
    \E content \in {Null, <<"a">>, <<"c">>} : WriteFile(PathJoin(ProjectP, FileF), content)

Check ==
    \E w \in {<<>>, <<0>>} : HandleCheckConflicts(ProjectP, w, NullList)

NextConflicts == EditFile \/ Write \/ Check

SpecConflicts == Init /\ [][NextConflicts]_vars

\* The agents whose file_edit events for path k in the project lie inside
\* the time window and are still valid.
ValidAgents(project_path, k, time_window_mins) ==
    {r.agent_id : r \in {x \in Rows :
        /\ x.project_path = project_path
        /\ x.action = "file_edit"
        /\ x.payload.valid /\ x.payload.file_path = k
        /\ x.timestamp > now - time_window_mins * MsPerMinute
        /\ KeepEvent(x, project_path)}}

\* C5 (as claimed): check_conflicts reports a path only if valid file_edit
\* events for that path inside the window come from at least 2 agents.
C5_TwoValidAgents ==
    result.op = "check_conflicts" =>
        \A k \in DOMAIN result.conflicts :
            Cardinality(ValidAgents(result.project_path, k,
                IF Len(result.time_window) = 0 THEN DefaultTimeWindow
                ELSE result.time_window[1])) >= 2

----------------------------------------------------------------------------
(* Tags: events are appended with tag lists and queried by tag.            *)

TagA == <<"a">>
TagB == <<"b">>
TagAB == <<"a", "b">>
TagLists == {<<>>, <<TagA>>, <<TagAB>>, <<TagA, TagB>>}
TagRequests == {<<TagA>>, <<TagB>>, <<TagB, TagA>>}

Tag ==
    \E tags \in TagLists :
        AddEvent(Agent1, "decision", PlainPayload, ProjectP, FALSE, Null, tags)

QueryTags ==
    \E req \in TagRequests : GetRecentEvents(ProjectP, DefaultLimit, Null, Null, req)

NextTags == Tag \/ QueryTags

SpecTags == Init /\ [][NextTags]_vars

\* The tag list a row was appended with.
AppendedTags(row) ==
    CHOOSE tags \in TagLists :
        row.tags = (IF Len(tags) > 0 THEN JsonStringArray(tags) ELSE Null)

\* C9 (as claimed): with a tags filter, an otherwise eligible event is
\* returned exactly when the tag list it was appended with holds one of the
\* requested tags as a whole tag.
C9_WholeTagMatch ==
    (Queried /\ result.tags # NullList /\ Len(result.tags) > 0) =>
        \A r \in Rows :
            r \in Range(result.events)
            <=> \E i \in 1..Len(result.tags) : result.tags[i] \in Range(AppendedTags(r))

----------------------------------------------------------------------------
(* Claims about the order and the size of a getRecentEvents reply *)

\* Chronological order with ties in ascending id.
Before(a, b) ==
    \/ a.timestamp < b.timestamp
    \/ a.timestamp = b.timestamp /\ a.id < b.id

\* The sets of eligible rows of the reply in `result`, one per isolation
\* floor the store can pick.
Eligible ==
    LET base == {r \in Rows : Where(r, result.project_path, result.since_cursor,
                                    result.action_types, NullList)}
    IN  IF IsolationRows(result.project_path) = {} THEN {base}
        ELSE {ApplyFloor(base, f) : f \in IsolationChoices(result.project_path)}

\* C11 (as claimed): with no tags filter the reply holds exactly the `limit`
\* most recent eligible events (all of them if fewer), oldest first by
\* timestamp with ties in ascending id, and an empty reply has a null cursor.
C11_LimitMostRecent ==
    (Queried /\ result.tags = NullList) =>
        /\ \E c \in Eligible :
              /\ Range(result.events) \subseteq c
              /\ Len(result.events) =
                     (IF result.limit < Cardinality(c) THEN result.limit ELSE Cardinality(c))
              /\ \A i \in 1..(Len(result.events) - 1) :
                     Before(result.events[i], result.events[i + 1])
              /\ \A e \in c \ Range(result.events) :
                     \A i \in 1..Len(result.events) : Before(e, result.events[i])
        /\ (Len(result.events) = 0 => result.cursor = Null)

----------------------------------------------------------------------------
(* Event ids: an agent logs to both projects, a project is cleaned up, and *)
(* a reader follows the cursor chain.                                      *)

NextIds == Log \/ Cleanup \/ Follow

SpecIds == Init /\ [][NextIds]_vars

\* The step is an append through the log operation.
Appends == result'.op = "log" /\ Len(timeline') = Len(timeline) + 1

\* C12: every append returns the id of the row it stored, greater than every
\* id stored, than every id a reader has been handed before (deleted since
\* or not), than the cursor the reader holds and than the id the previous
\* append returned.
C12_IdsNeverReused ==
    [][Appends =>
          LET new == timeline'[Len(timeline')]
          IN  /\ result'.id = new.id
              /\ \A r \in Rows : r.id < new.id
              /\ \A i \in chain.seen : i < new.id
              /\ (~CursorId(chain.cursor).nan => CursorId(chain.cursor).value < new.id)
              /\ (result.op = "log" => result.id < new.id)]_vars

\* C12 witness: an event was appended after a cleanup deleted every event the
\* reader had been handed; its id is above the reader's cursor.
C12_Witness ==
    /\ result.op = "log"
    /\ chain.seen # {}
    /\ \A r \in Rows : r.id \notin chain.seen
    /\ \E r \in Rows : r.id = result.id /\ r.id > CursorId(chain.cursor).value

----------------------------------------------------------------------------
(* Knowledge ranking: objects of three types, two titles and two           *)
(* confidences are stored for project P and searched by intent and query.  *)

ContentB == <<"b">>
QueryA == <<"a">>
QueryB == <<"b">>
HalfConfidence == 5
FullConfidence == 10

Store ==
    \E type \in {"pitfall", "constraint", "convention"}, title \in {TitleA, TitleB},
       confidence \in {HalfConfidence, FullConfidence} :
        CreateKnowledgeObject(ProjectP, type, title, ContentB, Null, confidence)

Rank ==
    \E intent \in {"debugging", "unknown"}, query \in {Null, QueryA, QueryB},
       maxResults \in {1, DefaultMaxResults} :
        SearchProjectKnowledge(ProjectP, intent, query, maxResults)

NextKnowledge == Store \/ Rank

SpecKnowledge == Init /\ [][NextKnowledge]_vars

Searched == result.op = "searchProjectKnowledge"

\* The stored objects an entry of a reply can stand for.
StandsFor(entry, obj) ==
    /\ obj.project_path = result.project_path
    /\ obj.knowledge_type = entry.type
    /\ obj.title = entry.summary
    /\ obj.confidence = entry.confidence

\* C13: the reply lists stored objects of the project in descending score,
\* equal scores in ascending id, which leaves one order for a given store
\* and given arguments.
C13_ScoreThenId ==
    Searched =>
        \E objs \in [1..Len(result.results) -> Range(knowledge)] :
            /\ \A i \in 1..Len(objs) : StandsFor(result.results[i], objs[i])
            /\ \A i \in 1..(Len(objs) - 1) :
                   LET a == Score(objs[i], result.intent, result.query)
                       b == Score(objs[i + 1], result.intent, result.query)
                   IN  a > b \/ (a = b /\ objs[i].id < objs[i + 1].id)

\* C13 witness: two objects of different type and equal score are listed,
\* the one of lower id first.
C13_Witness ==
    /\ Searched
    /\ Len(result.results) >= 2
    /\ \E a, b \in Range(knowledge) :
           /\ StandsFor(result.results[1], a)
           /\ StandsFor(result.results[2], b)
           /\ a.knowledge_type # b.knowledge_type
           /\ a.id < b.id
           /\ Score(a, result.intent, result.query) = Score(b, result.intent, result.query)

\* The score as documented, in tenths: confidence, plus 2.0 for the first
\* preferred type of the intent and 1.5 for the second, plus 0.5 when a
\* query is given and the title contains it (compared in lower case, the
\* query without surrounding blanks).
DocumentedTypeBoost(intent, type) ==
    CASE intent = "debugging" /\ type = "pitfall" -> 20
      [] intent = "debugging" /\ type = "constraint" -> 15
      [] intent = "feature" /\ type = "decision" -> 20
      [] intent = "feature" /\ type = "convention" -> 15
      [] intent = "refactor" /\ type = "convention" -> 20
      [] intent = "refactor" /\ type = "constraint" -> 15
      [] intent = "test" /\ type = "pitfall" -> 20
      [] OTHER -> 0

DocumentedScore(type, title, confidence) ==
    confidence
    + DocumentedTypeBoost(result.intent, type)
    + (IF result.query # Null /\ Len(Trim(result.query)) > 0
          /\ Includes(ToLower(title), Trim(ToLower(result.query)))
       THEN 5 ELSE 0)

EntryScore(entry) == DocumentedScore(entry.type, entry.summary, entry.confidence)

\* C14: a reply is in descending documented score, and its first entry has
\* the highest documented score of the project's objects that pass the
\* query filter.
C14_DocumentedScore ==
    Searched =>
        /\ \A i \in 1..(Len(result.results) - 1) :
               EntryScore(result.results[i]) >= EntryScore(result.results[i + 1])
        /\ \A o \in Range(knowledge) :
               ( /\ o.project_path = result.project_path
                 /\ (HasQuery(result.query) => MatchesQuery(o, result.query)) )
               => /\ Len(result.results) > 0
                  /\ DocumentedScore(o.knowledge_type, o.title, o.confidence)
                         <= EntryScore(result.results[1])

\* C14 witness: under intent debugging with no query, a pitfall of
\* confidence 0.5 is listed before a convention of confidence 1.0.
C14_Witness ==
    /\ Searched
    /\ result.intent = "debugging"
    /\ result.query = Null
    /\ Len(result.results) >= 2
    /\ result.results[1].type = "pitfall"
    /\ result.results[1].confidence = HalfConfidence
    /\ result.results[2].type = "convention"
    /\ result.results[2].confidence = FullConfidence

\* 0 for the first preferred type of the intent, 1 for the second, 2 for a
\* type the intent does not prefer.
TypeRank(intent, type) ==
    CASE DocumentedTypeBoost(intent, type) = 20 -> 0
      [] DocumentedTypeBoost(intent, type) = 15 -> 1
      [] OTHER -> 2

\* C15 (as claimed): with or without a query, of two listed objects of equal
\* confidence the one of the more preferred type comes first.
C15_TypePreferenceFirst ==
    Searched =>
        \A i, j \in 1..Len(result.results) :
            (i < j /\ result.results[i].confidence = result.results[j].confidence)
            => TypeRank(result.intent, result.results[i].type)
                   <= TypeRank(result.intent, result.results[j].type)

----------------------------------------------------------------------------
(* Saving knowledge: the existence check of db.ts and the save operation   *)
(* built on it (title limit, duplicate check, insert).                     *)

TitleLimit == 200

\* knowledgeObjectExists: COUNT(*) > 0 over project, type and title.
knowledgeObjectExistsInAnyProject(project_path, knowledge_type, title) ==
    \E o \in Range(knowledge) :
        o.knowledge_type = knowledge_type /\ o.title = title

knowledgeObjectExists(project_path, knowledge_type, title) ==
    \E o \in Range(knowledge) :
        /\ o.project_path = project_path
        /\ o.knowledge_type = knowledge_type
        /\ o.title = title

\* The reply of the save operation.
SaveReply(project_path, knowledge_type, title, success, duplicate, id) ==
    [op |-> "save_knowledge", project_path |-> project_path,
     knowledge_type |-> knowledge_type, title |-> title,
     success |-> success, duplicate |-> duplicate, id |-> id]

\* save knowledge: a title over the limit is rejected before any write, an
\* existing (project, type, title) is answered with the duplicate flag, and
\* anything else is inserted.
HandleSaveKnowledge(project_path, knowledge_type, title, content, confidence) ==
    /\ IF Len(title) > TitleLimit
       THEN /\ result' = SaveReply(project_path, knowledge_type, title, FALSE, FALSE, 0)
            /\ UNCHANGED <<knowledge, nextKnowledgeId>>
       ELSE IF knowledgeObjectExists(project_path, knowledge_type, title)
       THEN /\ result' = SaveReply(project_path, knowledge_type, title, FALSE, TRUE, 0)
            /\ UNCHANGED <<knowledge, nextKnowledgeId>>
       ELSE /\ nextKnowledgeId <= MaxKnowledge
            /\ knowledge' = Append(knowledge,
                   [id |-> nextKnowledgeId, project_path |-> project_path,
                    knowledge_type |-> knowledge_type, title |-> title,
                    content |-> content, source_event_id |-> Null,
                    confidence |-> confidence, created_at |-> now])
            /\ nextKnowledgeId' = nextKnowledgeId + 1
            /\ result' = SaveReply(project_path, knowledge_type, title, TRUE, FALSE,
                                   nextKnowledgeId)
    /\ UNCHANGED <<timeline, nextId, now, sessions, nextSession, activeSessions, files,
                   call, chain>>

LongTitle == [i \in 1..(TitleLimit + 1) |-> "a"]
ContentC == <<"c">>

Save ==
    \E p \in Projects, type \in {"decision", "pitfall"},
       title \in {TitleA, TitleB, LongTitle}, content \in {ContentB, ContentC} :
        HandleSaveKnowledge(p, type, title, content, FullConfidence)

NextSave == Save

SpecSave == Init /\ [][NextSave]_vars

\* The stored objects with the key of the save reply r.
WithKey(store, r) ==
    {i \in 1..Len(store) :
        /\ store[i].project_path = r.project_path
        /\ store[i].knowledge_type = r.knowledge_type
        /\ store[i].title = r.title}

NoSharedKey ==
    \A i, j \in 1..Len(knowledge) :
        i # j => \/ knowledge[i].project_path # knowledge[j].project_path
                 \/ knowledge[i].knowledge_type # knowledge[j].knowledge_type
                 \/ knowledge[i].title # knowledge[j].title

\* C16: no two stored objects share (project_path, knowledge_type, title);
\* a save of a key not stored yet (title within 200 characters) reports
\* success and stores one object, a save of a stored key reports
\* success = false, duplicate = true and stores nothing.
C16_NoDuplicateKeys ==
    /\ []NoSharedKey
    /\ [][(result'.op = "save_knowledge" /\ Len(result'.title) <= TitleLimit) =>
             IF WithKey(knowledge, result') = {}
             THEN /\ result'.success /\ ~result'.duplicate
                  /\ Cardinality(WithKey(knowledge', result')) = 1
             ELSE /\ ~result'.success /\ result'.duplicate
                  /\ knowledge' = knowledge]_vars

\* C16 witness: a second save of a stored key was answered with the duplicate
\* flag and the key is stored once.
C16_Witness ==
    /\ result.op = "save_knowledge"
    /\ result.duplicate /\ ~result.success
    /\ Cardinality(WithKey(knowledge, result)) = 1
    /\ Len(knowledge) > 1

----------------------------------------------------------------------------
(* Sessions (db.ts, handlers.ts): ending and switching *)

\* summary || null
OrNull(text) == IF text = Null \/ text = <<>> THEN Null ELSE text

\* The strings the session handlers answer with, and the message of the
\* Error handleEndSession throws.
SessionNotFound == "error: session not found"
SessionIdRequired == "session_id required"

\* handleSwitchSession
HandleSwitchSessionReactivating(session_id) ==
    /\ IF HasSession(session_id)
       THEN /\ activeSessions' =
                   [activeSessions EXCEPT ![getSession(session_id).project_path] = session_id]
            /\ sessions' = {IF x.id = session_id THEN [x EXCEPT !.active = TRUE] ELSE x :
                               x \in sessions}
            /\ result' = [op |-> "switch_session", session_id |-> session_id, found |-> TRUE,
                          thrown |-> FALSE, reply |-> "switched to"]
       ELSE /\ UNCHANGED <<activeSessions, sessions>>
            /\ result' = [op |-> "switch_session", session_id |-> session_id, found |-> FALSE,
                          thrown |-> FALSE, reply |-> SessionNotFound]
    /\ UNCHANGED <<timeline, nextId, now, nextSession, knowledge, nextKnowledgeId, files,
                   call, chain>>

HandleSwitchSession(session_id) ==
    /\ IF HasSession(session_id)
       THEN /\ activeSessions' =
                   [activeSessions EXCEPT ![getSession(session_id).project_path] = session_id]
            /\ result' = [op |-> "switch_session", session_id |-> session_id, found |-> TRUE,
                          thrown |-> FALSE, reply |-> "switched to"]
       ELSE /\ UNCHANGED activeSessions
            /\ result' = [op |-> "switch_session", session_id |-> session_id, found |-> FALSE,
                          thrown |-> FALSE, reply |-> SessionNotFound]
    /\ UNCHANGED <<timeline, nextId, now, sessions, nextSession, knowledge, nextKnowledgeId,
                   files, call, chain>>

\* handleEndSession throwing for an unknown session id as well.
HandleEndSessionThrowing(session_id, summary) ==
    /\ IF session_id # Null /\ session_id # <<>> /\ HasSession(session_id)
       THEN /\ sessions' = {IF x.id = session_id
                            THEN [x EXCEPT !.ended_at = <<now>>,
                                           !.summary = OrNull(summary),
                                           !.active = FALSE]
                            ELSE x : x \in sessions}
            /\ result' = [op |-> "end_session", session_id |-> session_id, found |-> TRUE,
                          thrown |-> FALSE, reply |-> "session ended"]
       ELSE /\ UNCHANGED sessions
            /\ result' = [op |-> "end_session", session_id |-> session_id, found |-> FALSE,
                          thrown |-> TRUE, reply |-> SessionIdRequired]
    /\ UNCHANGED <<timeline, nextId, now, nextSession, activeSessions, knowledge,
                   nextKnowledgeId, files, call, chain>>

\* handleEndSession: throws without a session_id (undefined or the empty
\* string), answers "session not found" for an unknown one, and otherwise
\* runs endSession (ended_at, summary, active = 0); the active-session
\* pointer is left as it is.
HandleEndSession(session_id, summary) ==
    /\ IF session_id = Null \/ session_id = <<>>
       THEN /\ UNCHANGED sessions
            /\ result' = [op |-> "end_session", session_id |-> session_id, found |-> FALSE,
                          thrown |-> TRUE, reply |-> SessionIdRequired]
       ELSE IF HasSession(session_id)
       THEN /\ sessions' = {IF x.id = session_id
                            THEN [x EXCEPT !.ended_at = <<now>>,
                                           !.summary = OrNull(summary),
                                           !.active = FALSE]
                            ELSE x : x \in sessions}
            /\ result' = [op |-> "end_session", session_id |-> session_id, found |-> TRUE,
                          thrown |-> FALSE, reply |-> "session ended"]
       ELSE /\ UNCHANGED sessions
            /\ result' = [op |-> "end_session", session_id |-> session_id, found |-> FALSE,
                          thrown |-> FALSE, reply |-> SessionNotFound]
    /\ UNCHANGED <<timeline, nextId, now, nextSession, activeSessions, knowledge,
                   nextKnowledgeId, files, call, chain>>

----------------------------------------------------------------------------
(* Session lifecycle: sessions are started in both projects, ended and     *)
(* switched to; sessions are started and ended while events are logged and *)
(* cleaned up; sessions are started while events are logged and read.      *)

SessionArgs == {SessionId(k) : k \in 1..MaxSessions}
SummaryD == <<"d">>

Begin == \E p \in Projects, isolate \in BOOLEAN : HandleStartSession(p, Agent1, isolate)

Finish == \E id \in SessionArgs : HandleEndSession(id, SummaryD)

Switch == \E id \in SessionArgs : HandleSwitchSession(id)

Note ==
    \E p \in Projects :
        HandleLog(Agent1, "decision", Null, Null, p, FALSE, <<>>, DefaultMaxPayloadChars)

NextSessions == Begin \/ Finish \/ Switch

SpecSessions == Init /\ [][NextSessions]_vars

NextAttach == Begin \/ Finish \/ Note \/ Cleanup

SpecAttach == Init /\ [][NextAttach]_vars

NextIsolate == Begin \/ Note \/ ReadRecent

SpecIsolate == Init /\ [][NextIsolate]_vars

\* C17: ending a session leaves it inactive with ended_at and summary set; no
\* step makes an inactive session active; and a switch to an ended session
\* sets the pointer of that session's project and changes no session row, no
\* event and no other pointer.
C17_EndedStaysEnded ==
    [][/\ \A s \in sessions : ~s.active =>
              \A t \in sessions' : t.id = s.id => ~t.active
       /\ (result'.op = "end_session" /\ result'.found) =>
              \E t \in sessions' :
                  /\ t.id = result'.session_id
                  /\ ~t.active
                  /\ t.ended_at = <<now>>
                  /\ t.summary = SummaryD
       /\ ( /\ result'.op = "switch_session" /\ result'.found
            /\ \E s \in sessions : s.id = result'.session_id /\ ~s.active )
          => /\ sessions' = sessions
             /\ timeline' = timeline
             /\ activeSessions' =
                    [activeSessions EXCEPT ![getSession(result'.session_id).project_path] =
                                               result'.session_id]]_vars

\* C17 witness: a switch went to an ended session of a project that has
\* another, active session; the pointer is on the ended session, which is
\* still inactive, and its isolation marker is stored.
C17_Witness ==
    /\ result.op = "switch_session" /\ result.found
    /\ \E s, t \in sessions :
           /\ s.id = result.session_id
           /\ ~s.active /\ Len(s.ended_at) > 0
           /\ activeSessions[s.project_path] = s.id
           /\ t.id # s.id /\ t.project_path = s.project_path /\ t.active
           /\ \E r \in Rows : r.session_id = s.id

\* The isolation markers written by start_session for the project.
SessionMarkers(project_path) ==
    {r \in Rows : /\ r.project_path = project_path
                  /\ r.action = "session_start"
                  /\ r.isolated}

\* C18 (as claimed): start_session stores a session with active = true and
\* ended_at = null and points the project at it; unless isolate is false it
\* appends an isolated session_start event attached to the session, after
\* which a query against the project returns no event older than that
\* marker; with isolate = false it writes no event and the project's
\* queries answer as before.
C18_StartSessionIsolates ==
    /\ [](Queried =>
             \A m \in SessionMarkers(result.project_path) :
                 \A i \in 1..Len(result.events) : result.events[i].id >= m.id)
    /\ [][(result'.op = "start_session" /\ nextSession' = nextSession + 1) =>
             /\ \E t \in sessions' \ sessions :
                    /\ t.id = result'.id
                    /\ t.project_path = result'.project_path
                    /\ t.active /\ Len(t.ended_at) = 0
                    /\ activeSessions'[t.project_path] = t.id
             /\ IF result'.isolate
                THEN /\ Len(timeline') = Len(timeline) + 1
                     /\ timeline'[Len(timeline')].action = "session_start"
                     /\ timeline'[Len(timeline')].isolated
                     /\ timeline'[Len(timeline')].session_id = result'.id
                     /\ timeline'[Len(timeline')].project_path = result'.project_path
                ELSE /\ timeline' = timeline
                     /\ \A p \in Projects :
                            getRecentEvents(p, DefaultLimit, Null, Null, NullList)'
                                = getRecentEvents(p, DefaultLimit, Null, Null, NullList)]_vars

\* C19: the event a log operation writes carries the id the project's
\* active-session pointer holds if that session is stored, and null if the
\* project has no pointer or the session it points to is gone.
C19_AttachedToActiveSession ==
    [][Appends =>
          LET new == timeline'[Len(timeline')]
              pointer == activeSessions[new.project_path]
          IN  new.session_id =
                  (IF pointer # Null /\ \E s \in sessions : s.id = pointer
                   THEN pointer ELSE Null)]_vars

\* C19 witness: an event was logged with session_id null to a project whose
\* pointer names a session that cleanup has deleted, while an event of the
\* other project is attached to that project's stored session.
C19_Witness ==
    /\ result.op = "log"
    /\ \E r, q \in Rows :
           /\ r.id = result.id
           /\ r.session_id = Null
           /\ activeSessions[r.project_path] # Null
           /\ q.action = "decision"
           /\ q.session_id # Null
           /\ q.session_id = activeSessions[q.project_path]

----------------------------------------------------------------------------
(* The stale-edit filter as a pure function: filterStaleFileEdits applied  *)
(* to every list of up to MaxEvents events of the bounded input set, over  *)
(* a file that is missing, matches the logged diff, or no longer does.     *)

\* A TimelineEvent as the filter receives it (a row read back from the
\* timeline; the rejected column may be set).
TimelineEvent(id, action, payload, rejected) ==
    [id |-> id,
     agent_id |-> Agent1,
     action |-> action,
     payload |-> payload,
     timestamp |-> 0,
     project_path |-> ProjectP,
     isolated |-> FALSE,
     session_id |-> Null,
     tags |-> Null,
     rejected |-> rejected]

\* The file of the other project, named by its absolute path.
AbsoluteQ == PathJoin(ProjectQ, FileF)

\* What an event of the input is made of: its action, its payload and its
\* rejected flag. The payload of a file_edit is not JSON, or has no file_path,
\* or no diff, or has a diff and a relative or an absolute file_path.
EventKinds ==
    {<<"decision", PlainPayload, rejected>> : rejected \in BOOLEAN}
    \cup
    {<<"file_edit", payload, rejected>> :
        payload \in {Malformed, Payload(Null, DiffAddA), Payload(FileF, Null),
                     Payload(FileF, DiffAddA), Payload(AbsoluteQ, DiffAddA)},
        rejected \in BOOLEAN}

\* The lists of events given to the filter; the id of an event is its place.
EventLists ==
    {[i \in DOMAIN kinds |-> TimelineEvent(i, kinds[i][1], kinds[i][2], kinds[i][3])] :
        kinds \in SeqsOf(EventKinds, 0, MaxEvents)}

InitFilter ==
    /\ timeline = <<>>
    /\ nextId = 1
    /\ now = 0
    /\ sessions = {}
    /\ nextSession = 1
    /\ activeSessions = [p \in Projects |-> Null]
    /\ knowledge = <<>>
    /\ nextKnowledgeId = 1
    /\ \E content \in {Null, Unreadable, <<"a">>, <<"c">>}, other \in {Null, <<"a">>} :
           files = [NoFiles EXCEPT ![PathJoin(ProjectP, FileF)] = content,
                                   ![AbsoluteQ] = other]
    /\ \E events \in EventLists :
           call = [op |-> "filterStaleFileEdits", events |-> events,
                   projectPath |-> ProjectP]
    /\ result = NoResult
    /\ chain = NoChain

FilterStaleFileEditsCall ==
    /\ call.op = "filterStaleFileEdits"
    /\ result = NoResult
    /\ result' = [op |-> "filterStaleFileEdits",
                  events |-> filterStaleFileEdits(call.events, call.projectPath)]
    /\ UNCHANGED <<timeline, nextId, now, sessions, nextSession, activeSessions, knowledge, nextKnowledgeId, files, call,
                   chain>>

NextFilter == FilterStaleFileEditsCall

SpecFilter == InitFilter /\ [][NextFilter]_vars

\* s can be had from t by leaving elements out, the order of the rest kept.
RECURSIVE IsSubsequence(_, _)
IsSubsequence(s, t) ==
    IF s = <<>> THEN TRUE
    ELSE IF t = <<>> THEN FALSE
    ELSE IF Head(s) = Head(t) THEN IsSubsequence(Tail(s), Tail(t))
    ELSE IsSubsequence(s, Tail(t))

\* The file_edit event is rejected although its patch still matches the file.
RejectedButMatching(event) ==
    /\ event.action = "file_edit"
    /\ event.rejected
    /\ event.payload.valid
    /\ event.payload.diff # Null
    /\ validatePatch(event.payload.file_path, extractPatch(event.payload.diff), ProjectP)

\* C20: the list filterStaleFileEdits returns is a subsequence of the list it
\* was given, in the same order; every event whose action is not file_edit is
\* in it, and no file_edit event whose rejected flag is set is in it, whether
\* or not its patch still matches the file.
C20_FilterSubsequence ==
    result.op = "filterStaleFileEdits" =>
        /\ IsSubsequence(result.events, call.events)
        /\ \A e \in Range(call.events) :
               e.action # "file_edit" => e \in Range(result.events)
        /\ \A e \in Range(call.events) :
               (e.action = "file_edit" /\ e.rejected) => e \notin Range(result.events)

\* C20 witness: the filter was given a rejected file_edit event whose patch
\* still matches the file, between two events of another action (one of them
\* with the rejected flag set); it left out the first and kept the two others.
C20_Witness ==
    /\ result.op = "filterStaleFileEdits"
    /\ Len(call.events) = 3
    /\ RejectedButMatching(call.events[2])
    /\ call.events[1].action = "decision" /\ call.events[1].rejected
    /\ call.events[3].action = "decision"
    /\ result.events = <<call.events[1], call.events[3]>>

\* The payload of the event cannot be parsed, or names no file, or has no diff.
NothingToValidate(event) ==
    \/ ~event.payload.valid
    \/ event.payload.file_path = Null
    \/ event.payload.diff = Null

\* C21: a file_edit event that is not rejected and whose payload cannot be
\* parsed, has no file_path or has no diff is kept by filterStaleFileEdits,
\* whether the file is missing, matches or has changed; validatePatch without
\* a patch answers true.
C21_KeptWithoutValidation ==
    result.op = "filterStaleFileEdits" =>
        /\ \A e \in Range(call.events) :
               (e.action = "file_edit" /\ ~e.rejected /\ NothingToValidate(e))
                   => e \in Range(result.events)
        /\ validatePatch(FileF, Null, call.projectPath)

\* C21 witness: the file does not exist and the filter was given three
\* file_edit events that are not rejected, one with a payload that is not
\* JSON, one without file_path and one without diff; it kept all three.
C21_Witness ==
    /\ result.op = "filterStaleFileEdits"
    /\ files[PathJoin(ProjectP, FileF)] = Null
    /\ Len(call.events) = 3
    /\ \A e \in Range(call.events) : e.action = "file_edit" /\ ~e.rejected
    /\ ~call.events[1].payload.valid
    /\ call.events[2].payload = Payload(Null, DiffAddA)
    /\ call.events[3].payload = Payload(FileF, Null)
    /\ result.events = call.events

\* The path the claim says is read: a relative file_path under the project,
\* an absolute one as it is.
ResolvedPath(file_path, project_path) ==
    IF file_path[1] = "/" THEN file_path ELSE project_path \o <<"/">> \o file_path

\* The event is a file_edit with a file_path and a diff that holds a patch.
HasPatch(event) ==
    /\ event.action = "file_edit"
    /\ event.payload.valid
    /\ event.payload.file_path # Null
    /\ event.payload.diff # Null
    /\ extractPatch(event.payload.diff) # Null

\* C22: a file_edit event with a patch whose file, a relative file_path taken
\* under project_path and an absolute one as it is, does not exist or cannot
\* be read is not valid for validatePatch and is filtered out; one whose file
\* at that path holds the added line and is not rejected is kept.
C22_MissingFileFailsClosed ==
    result.op = "filterStaleFileEdits" =>
        \A e \in Range(call.events) :
            HasPatch(e) =>
                LET content == files[ResolvedPath(e.payload.file_path, call.projectPath)]
                    patch == extractPatch(e.payload.diff)
                IN  /\ content \in {Null, Unreadable} =>
                        /\ ~validatePatch(e.payload.file_path, patch, call.projectPath)
                        /\ e \notin Range(result.events)
                    /\ (content = <<"a">> /\ ~e.rejected) =>
                        /\ validatePatch(e.payload.file_path, patch, call.projectPath)
                        /\ e \in Range(result.events)

\* C22 witness: the file of the project does not exist and the file of the
\* other project holds the added line; of two file_edit events with the same
\* diff, the one with the relative path was filtered out and the one with the
\* absolute path of the other file was kept.
C22_Witness ==
    /\ result.op = "filterStaleFileEdits"
    /\ files[PathJoin(ProjectP, FileF)] = Null
    /\ files[AbsoluteQ] = <<"a">>
    /\ Len(call.events) = 2
    /\ \A e \in Range(call.events) : HasPatch(e) /\ ~e.rejected
    /\ call.events[1].payload.file_path = FileF
    /\ call.events[2].payload.file_path = AbsoluteQ
    /\ result.events = <<call.events[2]>>

----------------------------------------------------------------------------
(* The files allow-list of check_conflicts: two agents log edits of the    *)
(* files f and fg of project P, and conflicts are asked for with a list    *)
(* that names f, fg or g.                                                  *)

FileFG == <<"f", "g">>
FileG == <<"g">>

EditNamed ==
    \E a \in Agents, fp \in {FileF, FileFG} :
        HandleLog(a, "file_edit", fp, Null, ProjectP, FALSE, <<>>,
                  DefaultMaxPayloadChars)

CheckNamed ==
    \E name \in {FileF, FileFG, FileG} :
        HandleCheckConflicts(ProjectP, <<>>, <<name>>)

NextAllow == EditNamed \/ CheckNamed

SpecAllow == Init /\ [][NextAllow]_vars

\* The path and the name match as substrings, in either direction.
MatchesEitherWay(file_path, name) ==
    Includes(file_path, name) \/ Includes(name, file_path)

\* The file_edit events of the project that the claimed rule keeps: their
\* file_path matches some name of the list in either direction.
ClaimedKept(project_path, filesArg) ==
    {r \in Rows : /\ r.project_path = project_path
                  /\ r.action = "file_edit"
                  /\ r.payload.valid
                  /\ r.payload.file_path # Null
                  /\ \E i \in 1..Len(filesArg) :
                         MatchesEitherWay(r.payload.file_path, filesArg[i])}

\* C23 (as claimed): with a files list, an event is kept if and only if its
\* file_path contains a name of the list or a name of the list contains its
\* file_path: the paths reported are those for which the events so kept come
\* from more than one agent, each with exactly those events.
C23_MatchEitherDirection ==
    result.op = "check_conflicts" =>
        LET kept == ClaimedKept(result.project_path, result.files)
            group(k) == {r \in kept : r.payload.file_path = k}
            claimed == {k \in {r.payload.file_path : r \in kept} :
                           Cardinality({r.agent_id : r \in group(k)}) > 1}
        IN  /\ DOMAIN result.conflicts = claimed
            /\ \A k \in claimed : Range(result.conflicts[k]) = group(k)

----------------------------------------------------------------------------
(* The cleanup tool: sessions are started and events logged in the two     *)
(* projects, the clock advances, and cleanup is called for a project, with *)
(* and without force, under a retention of 0 hours and of the default.     *)

DefaultRetentionHours == 24

\* handleCleanup: the scope is used with force only; without it the events
\* older than the configured retention go, whatever the scope.
HandleCleanup(scope, project_path, session_id, force, retention_hours) ==
    IF force THEN CleanupByScope(scope, project_path, session_id)
    ELSE CleanupOldEvents(retention_hours)

CleanupTool ==
    \E p \in Projects, force \in BOOLEAN, hours \in {0, DefaultRetentionHours} :
        HandleCleanup("project", p, Null, force, hours)

NextCleanup == Tick \/ Note \/ StartSession \/ CleanupTool

SpecCleanup == Init /\ [][NextCleanup]_vars

\* The step deletes the events and the sessions of the project, and nothing else.
DeletesProjectOnly(project_path) ==
    /\ timeline' = SelectSeq(timeline, LAMBDA r : r.project_path # project_path)
    /\ sessions' = {x \in sessions : x.project_path # project_path}

\* C24 (as claimed): a step of the cleanup tool called with scope "project"
\* and a project_path, without force, deletes every event and every session
\* of that project and no event or session of another project.
C24_ProjectCleanupWithoutForce ==
    [][\A p \in Projects, hours \in {0, DefaultRetentionHours} :
           HandleCleanup("project", p, Null, FALSE, hours) => DeletesProjectOnly(p)]_vars

----------------------------------------------------------------------------
(* Unknown session ids: sessions are started and events logged while       *)
(* end_session and switch_session are called with the id of a session that *)
(* is stored, of one that is not, and with the empty string.               *)

EmptyId == <<>>

Open == \E p \in Projects : HandleStartSession(p, Agent1, FALSE)

NoteP == HandleLog(Agent1, "decision", Null, Null, ProjectP, FALSE, <<>>, DefaultMaxPayloadChars)

EndAny == \E id \in SessionArgs \cup {EmptyId} : HandleEndSession(id, SummaryD)

SwitchAny == \E id \in SessionArgs \cup {EmptyId} : HandleSwitchSession(id)

NextUnknown == Open \/ NoteP \/ EndAny \/ SwitchAny

SpecUnknown == Init /\ [][NextUnknown]_vars

\* What the claim says of a call with a session id that is not stored: the
\* answer is the not-found string, nothing is thrown, and no session, no event
\* and no active-session pointer changes.
AnswersNotFound ==
    /\ result'.reply = SessionNotFound
    /\ ~result'.thrown
    /\ sessions' = sessions
    /\ timeline' = timeline
    /\ activeSessions' = activeSessions

----------------------------------------------------------------------------
(* Malformed cursors: events are logged to the two projects while project  *)
(* P is read with a since_cursor whose suffix after evt_ is not an integer. *)

\* evt_x, evt_ (nothing after the prefix), evt_x1 and evt_1x.
MalformedCursors ==
    {EvtPrefix \o <<"x">>, EvtPrefix, EvtPrefix \o <<"x", "1">>, EvtPrefix \o <<"1", "x">>}

QueryMalformed ==
    \E c \in MalformedCursors : GetRecentEvents(ProjectP, DefaultLimit, c, Null, NullList)

NextCursor == Tick \/ Log \/ QueryMalformed

SpecCursor == Init /\ [][NextCursor]_vars

\* C26 (as claimed): a query with a since_cursor whose suffix after evt_ is
\* not an integer answers what the same query without a cursor can answer.
C26_MalformedCursorIgnored ==
    (result.op = "getRecentEvents" /\ result.since_cursor \in MalformedCursors) =>
        [events |-> result.events, cursor |-> result.cursor]
            \in getRecentEvents(result.project_path, result.limit, Null,
                                result.action_types, result.tags)

----------------------------------------------------------------------------
(* Payload truncation: file_edit events whose file_path and diff are short *)
(* or long are logged under a max_payload_chars of 2, of 4 and of the      *)
(* default.                                                                *)

ShortText == <<"a", "b">>
LongText == <<"a", "b", "c", "d", "e", "f">>
LongDiff == <<"+", "a", "b", "c", "d", "e", "f">>

PayloadLimits == {2, 4, DefaultMaxPayloadChars}

LogLong ==
    \E fp \in {ShortText, LongText}, diff \in {Null, LongDiff}, max \in PayloadLimits :
        HandleLog(Agent1, "file_edit", fp, diff, ProjectP, FALSE, <<>>, max)

NextTruncate == LogLong

SpecTruncate == Init /\ [][NextTruncate]_vars

\* s ends with "...".
EndsWithDots(s) == Len(s) >= 3 /\ SubSeq(s, Len(s) - 2, Len(s)) = <<".", ".", ".">>

\* What the claim says of the event stored for a content field value and a
\* diff under a limit.
StoredAsClaimed(stored, value, diff, max) ==
    /\ Len(stored.payload.file_path) <= max
    /\ Len(value) <= max => stored.payload.file_path = value
    /\ Len(value) > max => EndsWithDots(stored.payload.file_path)
    /\ stored.payload.diff = diff

\* C27 (as claimed): after a log step the string field other than diff is
\* stored with at most max_payload_chars characters, unchanged when it is
\* within the limit and cut to end with "..." when it is longer, and the
\* diff is stored in full.
C27_TruncatedToLimit ==
    [][\A fp \in {ShortText, LongText}, diff \in {Null, LongDiff}, max \in PayloadLimits :
           HandleLog(Agent1, "file_edit", fp, diff, ProjectP, FALSE, <<>>, max)
               => StoredAsClaimed(timeline'[Len(timeline')], fp, diff, max)]_vars

----------------------------------------------------------------------------
(* The query filter: pitfalls with the titles A and c and the contents B   *)
(* and c are stored in project P and searched with no query, an empty or   *)
(* blank one, and queries of one and of two words in either letter case.   *)

TitleUpperA == <<"A">>
TitleC == <<"c">>
ContentUpperB == <<"B">>
ContentC1 == <<"c">>

\* undefined, "", " ", "a", "B", "x", "x a", "b  X" and "x\tC"
FilterQueries ==
    {Null, <<>>, <<" ">>, <<"a">>, <<"B">>, <<"x">>, <<"x", " ", "a">>,
     <<"b", " ", " ", "X">>, <<"x", "\t", "C">>}

StoreMixed ==
    \E title \in {TitleUpperA, TitleC}, content \in {ContentUpperB, ContentC1} :
        CreateKnowledgeObject(ProjectP, "pitfall", title, content, Null, FullConfidence)

Ask ==
    \E query \in FilterQueries :
        SearchProjectKnowledge(ProjectP, "debugging", query, DefaultMaxResults)

NextQuery == StoreMixed \/ Ask

SpecQuery == Init /\ [][NextQuery]_vars

\* The whitespace-separated tokens of a query: its maximal runs of
\* characters that are not whitespace.
Tokens(query) ==
    {SubSeq(query, p[1], p[2]) :
        p \in {q \in (1..Len(query)) \X (1..Len(query)) :
                  /\ q[1] <= q[2]
                  /\ \A k \in q[1]..q[2] : query[k] \notin WhiteSpace
                  /\ (q[1] = 1 \/ query[q[1] - 1] \in WhiteSpace)
                  /\ (q[2] = Len(query) \/ query[q[2] + 1] \in WhiteSpace)}}

\* The object passes the filter the claim describes.
PassesFilter(obj, query) ==
    \/ query = Null
    \/ Tokens(query) = {}
    \/ \E t \in Tokens(query) :
           \/ Includes(ToLower(obj.title), ToLower(t))
           \/ Includes(ToLower(obj.content), ToLower(t))

\* C28: a search lists, title by title, as many entries as the project has
\* objects that pass the filter: with a query that has a token, the objects
\* whose lower-cased title or content contains some lower-cased token of it;
\* with no query or an empty or blank one, every object.
C28_AnyTokenMatches ==
    Searched =>
        \A title \in {TitleUpperA, TitleC} :
            Cardinality({i \in 1..Len(result.results) : result.results[i].summary = title})
            = Cardinality({o \in Range(knowledge) :
                              /\ o.project_path = result.project_path
                              /\ o.title = title
                              /\ PassesFilter(o, result.query)})

\* C28 witness: the project holds an object with title A and content c and
\* one with title c and content c; the search for "x a" listed the first,
\* which contains one of the two tokens, and left out the second.
C28_Witness ==
    /\ Searched
    /\ result.query = <<"x", " ", "a">>
    /\ \E o \in Range(knowledge) : o.title = TitleUpperA /\ o.content = ContentC1
    /\ \E o \in Range(knowledge) : o.title = TitleC /\ o.content = ContentC1
    /\ Len(result.results) = 1
    /\ result.results[1].summary = TitleUpperA

----------------------------------------------------------------------------
(* The result limit: a store of 0..MaxStored knowledge objects, most of    *)
(* them of project P, is searched with max_results 0, 1, the default and   *)
(* more than the store holds.                                              *)

MaxStored == 12

\* The i-th object of the store: types, titles, confidences and projects
\* alternate so that the ranking is not the order of the ids.
StoredObject(i) ==
    [id |-> i,
     project_path |-> IF i % 7 = 0 THEN ProjectQ ELSE ProjectP,
     knowledge_type |-> IF i % 2 = 0 THEN "pitfall" ELSE "convention",
     title |-> IF i % 3 = 0 THEN TitleA ELSE TitleB,
     content |-> ContentB,
     source_event_id |-> Null,
     confidence |-> IF i % 4 < 2 THEN HalfConfidence ELSE FullConfidence,
     created_at |-> 0]

InitLimit ==
    /\ timeline = <<>>
    /\ nextId = 1
    /\ now = 0
    /\ sessions = {}
    /\ nextSession = 1
    /\ activeSessions = [p \in Projects |-> Null]
    /\ \E n \in 0..MaxStored :
           /\ knowledge = [i \in 1..n |-> StoredObject(i)]
           /\ nextKnowledgeId = n + 1
    /\ files = NoFiles
    /\ call = NoCall
    /\ result = NoResult
    /\ chain = NoChain

RankLimited ==
    \E intent \in {"debugging", "refactor"}, query \in {Null, QueryA},
       maxResults \in {0, 1, DefaultMaxResults, MaxStored + 1} :
        SearchProjectKnowledge(ProjectP, intent, query, maxResults)

NextLimit == RankLimited

SpecLimit == InitLimit /\ [][NextLimit]_vars

\* The ranking of the objects of the project that pass the query filter:
\* descending score, ascending id on equal scores.
Ranking(project_path, intent, query) ==
    SortScored({o \in Range(knowledge) :
                   /\ o.project_path = project_path
                   /\ PassesFilter(o, query)}, intent, query)

Min(a, b) == IF a < b THEN a ELSE b

\* C29: a search returns min(max_results, number of matching objects)
\* entries, which are the first objects of the ranking in order, each entry
\* made of type, summary (the title) and confidence and of nothing else.
C29_FirstMaxResults ==
    Searched =>
        LET ranking == Ranking(result.project_path, result.intent, result.query)
        IN  /\ Len(result.results) = Min(result.maxResults, Len(ranking))
            /\ \A i \in 1..Len(result.results) :
                   /\ DOMAIN result.results[i] = {"type", "summary", "confidence"}
                   /\ result.results[i].type = ranking[i].knowledge_type
                   /\ result.results[i].summary = ranking[i].title
                   /\ result.results[i].confidence = ranking[i].confidence

\* C29 witness: more than DefaultMaxResults objects of the project match and
\* a search with the default max_results returned DefaultMaxResults entries.
C29_Witness ==
    /\ Searched
    /\ result.maxResults = DefaultMaxResults
    /\ Len(Ranking(result.project_path, result.intent, result.query)) > DefaultMaxResults
    /\ Len(result.results) = DefaultMaxResults

----------------------------------------------------------------------------
(* The isolation floor after cleanup: events are logged in project P and   *)
(* isolating sessions started there while the clock advances; sessions are *)
(* cleaned up with scope session, and the project is read.                 *)

StartIsolated == HandleStartSession(ProjectP, Agent1, TRUE)

CleanupSession == \E id \in SessionArgs : CleanupByScope("session", Null, id)

ReadP == GetRecentEvents(ProjectP, DefaultLimit, Null, Null, NullList)

NextFloor == Tick \/ NoteP \/ StartIsolated \/ CleanupSession \/ ReadP

SpecFloor == Init /\ [][NextFloor]_vars

\* The isolated events of the project that are stored and have the latest
\* timestamp among the stored ones.
LatestMarkers(project_path) ==
    {m \in Rows : /\ m.project_path = project_path
                  /\ m.isolated
                  /\ \A x \in Rows : (x.project_path = project_path /\ x.isolated)
                                         => x.timestamp <= m.timestamp}

\* C30: a query without cursor or filters, whose limit is not reached,
\* returns the stored events of the project from the id of a stored isolated
\* event with the latest timestamp on, and all of them when no isolated
\* event is stored; so once cleanup has deleted the latest marker the floor
\* is the remaining marker that is now the latest, or none, and the events
\* older than the deleted marker are returned again.
C30_FloorFollowsStoredMarkers ==
    (Queried /\ result.since_cursor = Null /\ result.limit > Len(timeline)) =>
        LET p == result.project_path
            ofProject == {r \in Rows : r.project_path = p}
        IN  IF LatestMarkers(p) = {}
            THEN Range(result.events) = ofProject
            ELSE \E m \in LatestMarkers(p) :
                     Range(result.events) = {r \in ofProject : r.id >= m.id}

\* C30 witness: a session marker (id 1), an event (id 2) and a later marker
\* (id 3) were stored; cleanup of the second session deleted its marker, and
\* the next query fell back to the first marker and returned the event
\* again.
C30_Witness ==
    /\ Queried
    /\ nextId = 4
    /\ Len(timeline) = 2
    /\ timeline[1].id = 1 /\ timeline[1].isolated
    /\ timeline[2].id = 2 /\ ~timeline[2].isolated
    /\ ~HasSession(SessionId(2)) /\ nextSession = 3
    /\ result.events = timeline

----------------------------------------------------------------------------
(* Claims about the cursor chain under a limit *)

\* The events of the project that an earlier query of the chain passed over:
\* older than an event the chain has delivered, and not delivered.
PassedOver(project_path) ==
    {r.id : r \in {x \in Rows : /\ x.project_path = project_path
                                /\ x.id \notin chain.seen
                                /\ \E s \in chain.seen : x.id < s}}

\* C31 (as claimed): a delta query returns the `limit` most recent of the
\* eligible events newer than its cursor (every event it leaves out was
\* appended before every event it returns) and its cursor is that of the
\* newest event returned; and no query of the cursor chain delivers an event
\* that an earlier query of the chain passed over.
C31_DeltaSkipsOlder ==
    /\ [](( /\ Queried
            /\ ~CursorId(result.since_cursor).nan )
          => \E c \in Eligible :
                 /\ Range(result.events) \subseteq c
                 /\ Len(result.events) =
                        (IF result.limit < Cardinality(c) THEN result.limit ELSE Cardinality(c))
                 /\ \A e \in c \ Range(result.events) :
                        \A i \in 1..Len(result.events) : e.id < result.events[i].id
                 /\ Len(result.events) > 0 =>
                        result.cursor = FormatCursor(MaxOf(EventIds(result.events))))
    /\ [][(Queried' /\ chain' # chain) =>
             EventIds(result'.events) \cap PassedOver(result'.project_path) = {}]_vars

----------------------------------------------------------------------------
(* get_recent under filtering: an agent logs edits of the files f and g of *)
(* project P, with and without a diff (no file exists, so an edit with a   *)
(* diff is stale), the clock advances, and the project is read with and    *)
(* without related_to, a limit and a cursor.                               *)

LogEdit ==
    \E fp \in {FileF, FileG}, diff \in {Null, DiffAddA} :
        HandleLog(Agent1, "file_edit", fp, diff, ProjectP, FALSE, <<>>,
                  DefaultMaxPayloadChars)

RecentLimits == {<<1>>, <<>>}
RecentCursors == {Null, FormatCursor(1)}
RelatedLists == {NullList, <<FileF>>}

GetRecentTool ==
    \E limit \in RecentLimits, c \in RecentCursors, related \in RelatedLists :
        HandleGetRecent(ProjectP, limit, c, related, Null, NullList)

NextRecent == Tick \/ LogEdit \/ GetRecentTool

SpecRecent == Init /\ [][NextRecent]_vars

\* The event passes the filters of get_recent.
Shown(event, project_path, related_to) ==
    /\ (related_to # NullList => isEventRelevant(event, related_to))
    /\ KeepEvent(event, project_path)

\* C32 (as claimed): a get_recent step answers from one store query of at
\* most `limit` events: it lists the events of that query that pass the
\* related_to and staleness filters, in order, and none beyond it; it reports
\* the cursor of the store query, which lies at or after every event the
\* filters removed, so that the next delta query skips them; and when no
\* event is left it reports no cursor.
C32_CursorOfUnfilteredQuery ==
    [][\A limit \in RecentLimits, c \in RecentCursors, related \in RelatedLists :
           HandleGetRecent(ProjectP, limit, c, related, Null, NullList) =>
               \E q \in getRecentEvents(ProjectP,
                                        IF Len(limit) = 0 THEN DefaultLimit ELSE limit[1],
                                        c, Null, NullList) :
                   /\ result'.events =
                          SelectSeq(q.events, LAMBDA e : Shown(e, ProjectP, related))
                   /\ IF Len(result'.events) = 0
                      THEN result'.cursor = Null
                      ELSE /\ result'.cursor = q.cursor
                           /\ \A e \in Range(q.events) \ Range(result'.events) :
                                  e.id <= CursorId(result'.cursor).value]_vars

----------------------------------------------------------------------------
(* The shared pointer: one agent starts sessions in the two projects,      *)
(* sessions are switched to, both agents log to both projects, and a       *)
(* project is cleaned up.                                                  *)

Agent2 == <<"a", "2">>

LogBy ==
    \E a \in Agents, p \in Projects :
        HandleLog(a, "decision", Null, Null, p, FALSE, <<>>, DefaultMaxPayloadChars)

NextShared == Open \/ Switch \/ LogBy \/ Cleanup

SpecShared == Init /\ [][NextShared]_vars

\* The pointer of a project changes only in a start_session or a
\* switch_session step, and then to the session started or switched to.
PointerSetByStartOrSwitch ==
    \A p \in Projects :
        activeSessions'[p] # activeSessions[p] =>
            \/ result'.op = "start_session" /\ result'.project_path = p
                   /\ activeSessions'[p] = result'.id
            \/ result'.op = "switch_session" /\ result'.found
                   /\ activeSessions'[p] = result'.session_id

\* C33 (as claimed): the pointer of a project is set by start_session and
\* switch_session only, whichever agent calls them, and every event logged
\* to a project that has a pointer is attached to the session the pointer
\* names, whichever agent logs it.
C33_PointerSharedByAgents_Original ==
    [][/\ PointerSetByStartOrSwitch
       /\ Appends =>
              LET new == timeline'[Len(timeline')]
              IN  activeSessions[new.project_path] # Null =>
                      new.session_id = activeSessions[new.project_path]]_vars

\* C33 (amended): the pointer of a project is set by start_session and
\* switch_session only, and every event logged to a project whose pointer
\* names a session that is still stored is attached to that session,
\* whichever agent logs it; once cleanup has deleted the session the events
\* are attached to no session.
C33_PointerSharedByAgents ==
    [][/\ PointerSetByStartOrSwitch
       /\ Appends =>
              LET new == timeline'[Len(timeline')]
                  pointer == activeSessions[new.project_path]
              IN  /\ (pointer # Null /\ HasSession(pointer)) => new.session_id = pointer
                  /\ (pointer # Null /\ ~HasSession(pointer)) => new.session_id = Null]_vars

\* C33 witness: the second agent has just logged an event that is attached
\* to a session the first agent started, the session the project's pointer
\* was switched back to, while the project has a later session.
C33_Witness ==
    /\ result.op = "log"
    /\ \E r \in Rows, s, t \in sessions :
           /\ r.id = result.id
           /\ r.agent_id = Agent2
           /\ s.id = r.session_id
           /\ s.started_by # r.agent_id
           /\ activeSessions[r.project_path] = s.id
           /\ t.project_path = s.project_path
           /\ t.started_at >= s.started_at /\ t.id = SessionId(2) /\ s.id = SessionId(1)

----------------------------------------------------------------------------
(* The pointer after end_session: sessions are started, ended and switched *)
(* to in the two projects while events are logged and a project is cleaned *)
(* up.                                                                     *)

\* end_session clearing the pointer of the session's project.
EndSessionClearing(session_id) ==
    /\ HasSession(session_id)
    /\ sessions' = {IF x.id = session_id
                    THEN [x EXCEPT !.ended_at = <<now>>, !.summary = SummaryD,
                                   !.active = FALSE]
                    ELSE x : x \in sessions}
    /\ activeSessions' =
           [p \in Projects |-> IF activeSessions[p] = session_id THEN Null
                               ELSE activeSessions[p]]
    /\ result' = [op |-> "end_session", session_id |-> session_id, found |-> TRUE,
                  thrown |-> FALSE, reply |-> "session ended"]
    /\ UNCHANGED <<timeline, nextId, now, nextSession, knowledge, nextKnowledgeId, files,
                   call, chain>>

EndSession(session_id) == HandleEndSession(session_id, SummaryD)

EndStored == \E id \in SessionArgs : HasSession(id) /\ EndSession(id)

NextEnded == Open \/ EndStored \/ Switch \/ Note \/ Cleanup

SpecEnded == Init /\ [][NextEnded]_vars

\* The project's pointer names a stored session that has been ended.
PointsAtEnded(p, id) ==
    /\ activeSessions[p] = id
    /\ \E s \in sessions : s.id = id /\ Len(s.ended_at) > 0

\* The step is a start_session in the project or a switch to one of its sessions.
StartOrSwitchIn(p) ==
    \/ result'.op = "start_session" /\ result'.project_path = p
    \/ result'.op = "switch_session" /\ result'.found /\ activeSessions'[p] = result'.session_id

\* The step ends a session and leaves every pointer as it is; a pointer that
\* names the session resolves to it afterwards; and an event logged to a
\* project whose pointer names an ended session is attached to that session.
EndKeepsPointer ==
    /\ (result'.op = "end_session" /\ result'.found) =>
           /\ activeSessions' = activeSessions
           /\ \A p \in Projects, id \in SessionArgs :
                  (id = result'.session_id /\ activeSessions[p] = id) =>
                      PointsAtEnded(p, id)' /\ ActiveSessionId(p)' = id
    /\ Appends =>
           \A id \in SessionArgs :
               PointsAtEnded(timeline'[Len(timeline')].project_path, id) =>
                   timeline'[Len(timeline')].session_id = id

\* C34 (as claimed): ending the session a pointer names leaves the pointer;
\* from then on, every step that is not a start_session or switch_session of
\* that project leaves the pointer resolving to the ended session, and log
\* steps attach their event to it.
C34_EndKeepsPointer_Original ==
    [][/\ EndKeepsPointer
       /\ \A p \in Projects, id \in SessionArgs :
              (PointsAtEnded(p, id) /\ ~StartOrSwitchIn(p)) =>
                  PointsAtEnded(p, id)' /\ ActiveSessionId(p)' = id]_vars

\* C34 (amended): ending the session a pointer names leaves the pointer;
\* from then on, every step that is not a start_session or switch_session of
\* that project leaves the pointer as it is, and for as long as no cleanup
\* has deleted the ended session the pointer resolves to it and log steps
\* attach their event to it; after the deletion the pointer resolves to no
\* session.
C34_EndKeepsPointer ==
    [][/\ EndKeepsPointer
       /\ \A p \in Projects, id \in SessionArgs :
              (PointsAtEnded(p, id) /\ ~StartOrSwitchIn(p)) =>
                  /\ activeSessions'[p] = id
                  /\ IF HasSession(id)'
                     THEN PointsAtEnded(p, id)' /\ ActiveSessionId(p)' = id
                     ELSE result'.op = "cleanup" /\ ActiveSessionId(p)' = Null]_vars

\* C34 witness: an event has just been logged and attached to the session
\* the project's pointer names, which was ended before, and an earlier event
\* of the project is attached to the same session.
C34_Witness ==
    /\ result.op = "log"
    /\ \E r, q \in Rows, s \in sessions :
           /\ r.id = result.id
           /\ s.id = r.session_id
           /\ Len(s.ended_at) > 0 /\ ~s.active
           /\ activeSessions[r.project_path] = s.id
           /\ q.id < r.id /\ q.session_id = s.id

----------------------------------------------------------------------------
(* Conflicts across an isolation boundary: two agents log edits of file f  *)
(* of project P, isolating sessions are started there, the clock advances, *)
(* and the project is asked for its conflicts and for its recent events.   *)

EditF ==
    \E a \in Agents :
        HandleLog(a, "file_edit", FileF, Null, ProjectP, FALSE, <<>>, DefaultMaxPayloadChars)

RecentP == HandleGetRecent(ProjectP, <<>>, Null, NullList, Null, NullList)

NextWindow == Tick \/ EditF \/ StartIsolated \/ Check \/ RecentP

SpecWindow == Init /\ [][NextWindow]_vars

\* The file_edit events of the project for path k inside the time window,
\* whatever isolation markers the project has.
EditsInWindow(project_path, k, time_window_mins) ==
    {r \in Rows : /\ r.project_path = project_path
                  /\ r.action = "file_edit"
                  /\ r.timestamp > now - time_window_mins * MsPerMinute
                  /\ ConflictPath(r, NullList) = k}

\* The events written before the project's latest isolation marker (before
\* every marker of latest timestamp, where several share it).
BeforeLatestMarker(project_path) ==
    {r \in Rows : /\ r.project_path = project_path
                  /\ LatestMarkers(project_path) # {}
                  /\ \A m \in LatestMarkers(project_path) : r.id < m.id}

\* C35: check_conflicts reports a path exactly when the file_edit events of
\* the project for it inside the time window come from more than one agent
\* and more than one of them is not stale, and lists all of those that are
\* not stale, the events written before the latest isolation marker
\* included; get_recent returns none of the latter.
C35_ConflictsIgnoreFloor ==
    /\ result.op = "check_conflicts" =>
           LET p == result.project_path
               w == IF Len(result.time_window) = 0 THEN DefaultTimeWindow
                    ELSE result.time_window[1]
               Valid(k) == {r \in EditsInWindow(p, k, w) : KeepEvent(r, p)}
           IN  /\ DOMAIN result.conflicts =
                      {k \in {FileF} :
                          /\ Cardinality({r.agent_id : r \in EditsInWindow(p, k, w)}) > 1
                          /\ Cardinality(Valid(k)) > 1}
               /\ \A k \in DOMAIN result.conflicts :
                      Range(result.conflicts[k]) = Valid(k)
    /\ result.op = "get_recent" =>
           Range(result.events) \cap BeforeLatestMarker(result.project_path) = {}

\* C35 witness: check_conflicts has just reported file f with the edits of
\* two agents that were both written before the project's only isolation
\* marker, and no get_recent of the project returns either of them.
C35_Witness ==
    /\ result.op = "check_conflicts"
    /\ DOMAIN result.conflicts = {FileF}
    /\ Cardinality(IsolationRows(ProjectP)) = 1
    /\ Range(result.conflicts[FileF]) \subseteq BeforeLatestMarker(ProjectP)
    /\ \A q \in getRecentEvents(ProjectP, DefaultLimit, Null, Null, NullList) :
           Range(q.events) \cap Range(result.conflicts[FileF]) = {}

----------------------------------------------------------------------------
(* The pointer and its project: sessions are started, ended and switched   *)
(* to in the two projects while events are logged and a project is cleaned *)
(* up.                                                                     *)

\* switch_session pointing project P at the session whatever its project.
SwitchSessionOfProjectP(session_id) ==
    /\ IF HasSession(session_id)
       THEN /\ activeSessions' = [activeSessions EXCEPT ![ProjectP] = session_id]
            /\ result' = [op |-> "switch_session", session_id |-> session_id, found |-> TRUE,
                          thrown |-> FALSE, reply |-> "switched to"]
       ELSE /\ UNCHANGED activeSessions
            /\ result' = [op |-> "switch_session", session_id |-> session_id, found |-> FALSE,
                          thrown |-> FALSE, reply |-> SessionNotFound]
    /\ UNCHANGED <<timeline, nextId, now, sessions, nextSession, knowledge, nextKnowledgeId,
                   files, call, chain>>

SwitchSession(session_id) == HandleSwitchSession(session_id)

SwitchTo == \E id \in SessionArgs : SwitchSession(id)

NextPointer == Open \/ EndStored \/ SwitchTo \/ Note \/ Cleanup

SpecPointer == Init /\ [][NextPointer]_vars

\* C36: the session the pointer of a project resolves to, if it resolves to
\* a stored session, is a session of that project.
C36_PointerWithinProject ==
    \A p \in Projects :
        ActiveSessionId(p) # Null => getSession(ActiveSessionId(p)).project_path = p

\* C36 witness: a switch has just pointed project Q back at its ended
\* session, project P was cleaned up after its session was started, so that
\* its pointer resolves to nothing, and events of Q are stored.
C36_Witness ==
    /\ result.op = "switch_session" /\ result.found
    /\ activeSessions[ProjectP] # Null /\ ActiveSessionId(ProjectP) = Null
    /\ ActiveSessionId(ProjectQ) = result.session_id
    /\ Len(getSession(result.session_id).ended_at) > 0
    /\ \E r \in Rows : r.project_path = ProjectQ /\ r.session_id = result.session_id

----------------------------------------------------------------------------
(* Reads: two agents log edits of file f of project P with a diff, the     *)
(* file is written and deleted, and the project, which has a session and  *)
(* a stored convention, is read by get_recent, check_conflicts and the        *)
(* knowledge search. The reader of get_recent remembers in `call` the      *)
(* events a reply of the store query lost to the stale filter.             *)

Dropped == IF call.op = "reader" THEN call.dropped ELSE {}

\* get_recent caching the verdict of the stale filter in the rejected column.
ReadRememberingFlagging(project_path) ==
    /\ \E q \in getRecentEvents(project_path, DefaultLimit, Null, Null, NullList) :
           LET events == filterStaleFileEdits(q.events, project_path)
               stale == EventIds(q.events) \ EventIds(events)
           IN  /\ result' = [op |-> "get_recent", project_path |-> project_path,
                             since_cursor |-> Null, events |-> events,
                             cursor |-> IF Len(events) = 0 THEN Null ELSE q.cursor]
               /\ call' = [op |-> "reader", dropped |-> Dropped \cup stale]
               /\ timeline' = [i \in DOMAIN timeline |->
                                  IF timeline[i].id \in stale
                                  THEN [timeline[i] EXCEPT !.rejected = TRUE]
                                  ELSE timeline[i]]
    /\ UNCHANGED <<nextId, now, sessions, nextSession, activeSessions, knowledge,
                   nextKnowledgeId, files, chain>>

\* handleGetRecent without cursor, limit or filters: the store query and the
\* stale filter.
ReadRemembering(project_path) ==
    /\ \E q \in getRecentEvents(project_path, DefaultLimit, Null, Null, NullList) :
           LET events == filterStaleFileEdits(q.events, project_path)
           IN  /\ result' = [op |-> "get_recent", project_path |-> project_path,
                             since_cursor |-> Null, events |-> events,
                             cursor |-> IF Len(events) = 0 THEN Null ELSE q.cursor]
               /\ call' = [op |-> "reader",
                           dropped |-> Dropped \cup (EventIds(q.events) \ EventIds(events))]
    /\ UNCHANGED <<timeline, nextId, now, sessions, nextSession, activeSessions, knowledge,
                   nextKnowledgeId, files, chain>>

EditWithDiff ==
    \E a \in Agents :
        HandleLog(a, "file_edit", FileF, DiffAddA, ProjectP, FALSE, <<>>,
                  DefaultMaxPayloadChars)

WriteOrDelete ==
    \E content \in {Null, <<"a">>} : WriteFile(PathJoin(ProjectP, FileF), content)

SearchP == SearchProjectKnowledge(ProjectP, "debugging", Null, DefaultMaxResults)

CheckP == HandleCheckConflicts(ProjectP, <<>>, NullList)

ReadP2 == ReadRemembering(ProjectP)

\* The store after start_session (without marker) and the storing of one
\* convention in project P.
InitReads ==
    /\ timeline = <<>>
    /\ nextId = 1
    /\ now = 0
    /\ sessions = {[id |-> SessionId(1), project_path |-> ProjectP, started_at |-> 0,
                    ended_at |-> <<>>, started_by |-> Agent1, summary |-> Null,
                    active |-> TRUE]}
    /\ nextSession = 2
    /\ activeSessions = [p \in Projects |-> IF p = ProjectP THEN SessionId(1) ELSE Null]
    /\ knowledge = <<StoredObject(1)>>
    /\ nextKnowledgeId = 2
    /\ files = NoFiles
    /\ call = NoCall
    /\ result = NoResult
    /\ chain = NoChain

NextReads == EditWithDiff \/ WriteOrDelete \/ ReadP2 \/ CheckP \/ SearchP

SpecReads == InitReads /\ [][NextReads]_vars

----------------------------------------------------------------------------
(* Cleanup by scope: sessions are started in the two projects, events are  *)
(* logged and knowledge saved in project P, and cleanupByScope is called   *)
(* with every scope, with and without the argument the scope needs (absent *)
(* or the empty string).                                                   *)

ScopeProjects == {Null, ProjectP}

ScopeSessions == {<<>>, SessionId(1)}

LearnP == CreateKnowledgeObject(ProjectP, "pitfall", TitleA, <<"c">>, Null, 10)

CleanupScoped ==
    \E scope \in {"all", "project", "session"}, p \in ScopeProjects, id \in ScopeSessions :
        CleanupByScope(scope, p, id)

NextScoped == Open \/ NoteP \/ LearnP \/ CleanupScoped

SpecScoped == Init /\ [][NextScoped]_vars

\* The events and the sessions a scope names.
EventsOfScope(scope, project_path, session_id) ==
    IF scope = "all" THEN Rows
    ELSE IF scope = "project" THEN {r \in Rows : r.project_path = project_path}
    ELSE {r \in Rows : r.session_id = session_id}

SessionsOfScope(scope, project_path, session_id) ==
    IF scope = "all" THEN sessions
    ELSE IF scope = "project" THEN {x \in sessions : x.project_path = project_path}
    ELSE {x \in sessions : x.id = session_id}

\* C38: a call of cleanupByScope whose scope has its argument removes the
\* events and the sessions of the scope, keeps the other events in their
\* order and the other sessions, and returns the number of events removed;
\* a call with scope project and no project_path, or scope session and no
\* session_id, throws and removes nothing; either way knowledge objects,
\* pointers and id counters are unchanged.
C38_CleanupByScopeFrame ==
    [][\A scope \in {"all", "project", "session"}, p \in ScopeProjects, id \in ScopeSessions :
           CleanupByScope(scope, p, id) =>
               /\ UNCHANGED <<knowledge, nextKnowledgeId, activeSessions, nextId, nextSession>>
               /\ IF \/ scope = "project" /\ p \in {Null, <<>>}
                     \/ scope = "session" /\ id \in {Null, <<>>}
                  THEN result'.thrown /\ UNCHANGED <<timeline, sessions>>
                  ELSE /\ ~result'.thrown
                       /\ Range(timeline') = Rows \ EventsOfScope(scope, p, id)
                       /\ timeline' = SelectSeq(timeline, LAMBDA r : r \in Range(timeline'))
                       /\ sessions' = sessions \ SessionsOfScope(scope, p, id)
                       /\ result'.deleted = Len(timeline) - Len(timeline')]_vars

\* C38 witness: a cleanup has just deleted one session of a project with
\* its events, and left an event of the same project that belongs to no
\* deleted session, a later session of the project, and the knowledge
\* saved.
C38_Witness ==
    /\ result.op = "cleanup" /\ ~result.thrown /\ result.deleted > 0
    /\ \E r \in Rows : r.project_path = ProjectP
    /\ ~HasSession(SessionId(1)) /\ nextSession > 1
    /\ \E x \in sessions : x.project_path = ProjectP
    /\ Len(knowledge) > 0

----------------------------------------------------------------------------
(* Retention cleanup: sessions are started in project P and the first one  *)
(* ended, events are logged in the two projects, the clock advances, and   *)
(* the cleanup tool is called                                              *)
(* without force under a retention of 0 hours, of the default, and of a    *)
(* negative number of hours (the configuration is not validated).          *)

RetentionHours == {0 - 1, 0, DefaultRetentionHours}

RetentionCleanup ==
    \E hours \in RetentionHours : HandleCleanup("all", Null, Null, FALSE, hours)

OpenInP == HandleStartSession(ProjectP, Agent1, FALSE)

EndFirst == EndSession(SessionId(1))

NextRetention == Tick \/ OpenInP \/ EndFirst \/ Note \/ RetentionCleanup

SpecRetention == Init /\ [][NextRetention]_vars

\* C39: a retention cleanup removes the events, of whatever project, whose
\* timestamp is below now - retention_hours (in milliseconds) and keeps the
\* others in their order; removes the sessions whose ended_at is set and
\* below that cutoff and keeps the others, every session that has not been
\* ended among them; and returns the number of events removed.
C39_RetentionCleanup ==
    [][\A hours \in RetentionHours :
           CleanupOldEvents(hours) =>
               LET cutoff == now - hours * MsPerHour
               IN  /\ Range(timeline') = {r \in Rows : r.timestamp >= cutoff}
                   /\ timeline' = SelectSeq(timeline, LAMBDA r : r \in Range(timeline'))
                   /\ sessions \ sessions' =
                          {x \in sessions : x.ended_at # <<>> /\ x.ended_at[1] < cutoff}
                   /\ sessions' \subseteq sessions
                   /\ \A x \in sessions : x.ended_at = <<>> => x \in sessions'
                   /\ result'.deleted = Len(timeline) - Len(timeline')]_vars

\* C39 witness: a retention cleanup has just deleted an event and the ended
\* session of an earlier millisecond, and kept an event of the current
\* millisecond and a session started in the earlier one that was not ended.
C39_Witness ==
    /\ result.op = "cleanup" /\ result.deleted > 0
    /\ \E r \in Rows : r.timestamp = now
    /\ \E x \in sessions : x.started_at < now /\ x.ended_at = <<>>
    /\ \E k \in 1..(nextSession - 1) : ~HasSession(SessionId(k))

----------------------------------------------------------------------------
(* extractPatch as a pure function: applied to no diff and to every diff   *)
(* of up to MaxDiffLines lines of the bounded set, and then to its own     *)
(* result.                                                                 *)

MaxDiffLines == 3

\* The lines of a diff: the empty line, added, removed and context lines
\* (bare and with text, and with a doubled sign), file headers, a hunk
\* header, and plain text with a sign inside.
DiffLineInputs ==
    {<<>>, <<"+">>, <<"+", "a">>, <<"+", "+">>, <<"+", "+", "+">>, <<"+", "+", "+", " ", "a">>,
     <<"-">>, <<"-", "a">>, <<"-", "-", "-">>, <<"-", "-", "-", " ", "a">>,
     <<" ">>, <<" ", "a">>, <<"a">>, <<"@", "@">>, <<"a", "+">>}

InitExtract ==
    /\ timeline = <<>>
    /\ nextId = 1
    /\ now = 0
    /\ sessions = {}
    /\ nextSession = 1
    /\ activeSessions = [p \in Projects |-> Null]
    /\ knowledge = <<>>
    /\ nextKnowledgeId = 1
    /\ files = NoFiles
    /\ \/ call = [op |-> "extractPatch", absent |-> TRUE, lines |-> <<>>, diff |-> Null]
       \/ \E ls \in SeqsOf(DiffLineInputs, 0, MaxDiffLines) :
              call = [op |-> "extractPatch", absent |-> FALSE, lines |-> ls,
                      diff |-> Join(ls, NL)]
    /\ result = NoResult
    /\ chain = NoChain

ExtractPatchCall ==
    /\ call.op = "extractPatch"
    /\ result = NoResult
    /\ result' = [op |-> "extractPatch", value |-> extractPatch(call.diff)]
    /\ UNCHANGED <<timeline, nextId, now, sessions, nextSession, activeSessions, knowledge,
                   nextKnowledgeId, files, call, chain>>

\* extractPatch applied to the result of the first call.
ExtractPatchAgain ==
    /\ result.op = "extractPatch"
    /\ result.value # Null
    /\ result' = [op |-> "extractPatchAgain", first |-> result.value,
                  value |-> extractPatch(result.value)]
    /\ UNCHANGED <<timeline, nextId, now, sessions, nextSession, activeSessions, knowledge,
                   nextKnowledgeId, files, call, chain>>

NextExtract == ExtractPatchCall \/ ExtractPatchAgain

SpecExtract == InitExtract /\ [][NextExtract]_vars

\* The line starts with +, - or a space, and with neither +++ nor ---.
PatchLine(line) ==
    /\ Len(line) > 0
    /\ line[1] \in {"+", "-", " "}
    /\ ~(Len(line) >= 3 /\ line[1] = line[2] /\ line[2] = line[3] /\ line[1] \in {"+", "-"})

\* C40: extractPatch returns the lines of the diff that start with +, - or
\* a space and with neither +++ nor ---, in their order and joined by
\* newlines; null when the diff is absent, empty or has no such line; and
\* applied to its own result it returns that result.
C40_ExtractPatch ==
    /\ result.op = "extractPatch" =>
           LET kept == SelectSeq(call.lines, PatchLine)
           IN  IF call.absent \/ call.diff = <<>> \/ Len(kept) = 0
               THEN result.value = Null
               ELSE /\ result.value # Null
                    /\ Split(result.value, NL) = kept
    /\ result.op = "extractPatchAgain" => result.value = result.first

\* C40 witness: extractPatch was applied to a diff of three lines, a file
\* header, a line of plain text and an added line, and again to its result,
\* the added line.
C40_Witness ==
    /\ result.op = "extractPatchAgain"
    /\ Len(call.lines) = 3
    /\ \E i \in 1..3 : StartsWith(call.lines[i], <<"+", "+", "+">>)
    /\ \E i \in 1..3 : call.lines[i] = <<"a">>
    /\ result.first = <<"+", "a">>
    /\ result.value = <<"+", "a">>

====
